---- MODULE Spec2Model ----
(***************************************************************************)
(* Scanline rasterization core of Tilengine (src/src/Draw.c): the scanline *)
(* scheduler DrawScanline, the layer and sprite painters it dispatches to, *)
(* and the per-pixel sprite collision recorder.                            *)
(*                                                                         *)
(* Pixels are natural numbers, 0 = transparent/empty.  A palette is a      *)
(* number p > 0 (0 = NULL) and its entry for source index i is p + i.      *)
(* Flags are sets of flag names instead of bit fields.                     *)
(***************************************************************************)
EXTENDS Integers, Sequences, FiniteSets, TLC

(* ------------------------------ bounds -------------------------------- *)
\* framebuffer.width and framebuffer.height of the modelled engine
W == 4
H == 2
\* engine->numlayers and the number of sprite slots
NumLayers == 2
NumSprites == 2
\* DrawScanline may be called past the end of the frame this many times
Overrun == 2
MaxLine == H + Overrun

(* --------------------------- program data ----------------------------- *)
\* tileset->hshift = tileset->vshift; tile width = height = 2^TileShift
TileShift == 1
TileW == 2 ^ TileShift
\* tilemap->cols and tilemap->rows
MapCols == 2
MapRows == 1
\* empty slot of the collision buffer
NoSprite == 65535

Cols == 0 .. (W - 1)
Lines == 0 .. (H - 1)
LayerIds == 0 .. (NumLayers - 1)
SpriteIds == 0 .. (NumSprites - 1)

ZeroRow == [x \in Cols |-> 0]
EmptyCollision == [x \in Cols |-> NoSprite]

(* --------------------------- C arithmetic ----------------------------- *)
\* a % b of C (truncation towards zero), b > 0
CRem(a, b) == IF a >= 0 THEN a % b ELSE 0 - ((0 - a) % b)
\* a / b of C (truncation towards zero), b > 0
CDiv(a, b) == IF a >= 0 THEN a \div b ELSE 0 - ((0 - a) \div b)
\* a >> n (arithmetic) and a & (2^n - 1) of a two's complement int
Shr(a, n) == a \div (2 ^ n)
Mask(a, n) == a % (2 ^ n)
\* fixed point: FIXED_BITS fractional bits
FIXED_BITS == 16
int2fix(a) == a * (2 ^ FIXED_BITS)
fix2int(a) == Shr(a, FIXED_BITS)
Min(a, b) == IF a < b THEN a ELSE b
Max(a, b) == IF a > b THEN a ELSE b

(* ------------------------------ blitters ------------------------------ *)
\* palette->data[i]
PaletteData(pal, i) == pal + i

\* The source index the blitter reads for destination pixel i
SrcAt(srcpos, i, dx) == srcpos + i * dx

\* A keyed blitter: for i in 0..width-1, source sample src[srcpos + i*dx],
\* when non-zero, is stored as palette colour at dst[dstx + i].
BlitKeyed(dst, dstx, src, srcpos, width, dx, pal) ==
    [x \in DOMAIN dst |->
        IF /\ x >= dstx
           /\ x < dstx + width
           /\ SrcAt(srcpos, x - dstx, dx) \in DOMAIN src
           /\ src[SrcAt(srcpos, x - dstx, dx)] # 0
        THEN PaletteData(pal, src[SrcAt(srcpos, x - dstx, dx)])
        ELSE dst[x]]

\* An opaque blitter: every sample is stored, index 0 included.
BlitOpaque(dst, dstx, src, srcpos, width, dx, pal) ==
    [x \in DOMAIN dst |->
        IF /\ x >= dstx
           /\ x < dstx + width
           /\ SrcAt(srcpos, x - dstx, dx) \in DOMAIN src
        THEN PaletteData(pal, src[SrcAt(srcpos, x - dstx, dx)])
        ELSE dst[x]]

\* The source index a scaling blitter reads for destination pixel i: the
\* fixed-point offset i*dx, truncated (offset / (1 << FIXED_BITS))
ScaledSrcAt(srcpos, i, dx) == srcpos + CDiv(i * dx, 2 ^ FIXED_BITS)

\* A scaling blitter, keyed or opaque
BlitScaled(dst, dstx, src, srcpos, width, dx, pal, keyed) ==
    [x \in DOMAIN dst |->
        IF /\ x >= dstx
           /\ x < dstx + width
           /\ ScaledSrcAt(srcpos, x - dstx, dx) \in DOMAIN src
           /\ (keyed => src[ScaledSrcAt(srcpos, x - dstx, dx)] # 0)
        THEN PaletteData(pal, src[ScaledSrcAt(srcpos, x - dstx, dx)])
        ELSE dst[x]]

ScaledInBounds(dst, dstx, src, srcpos, width, dx) ==
    /\ width >= 0
    /\ \A i \in 0 .. (width - 1) :
          /\ (dstx + i) \in DOMAIN dst
          /\ ScaledSrcAt(srcpos, i, dx) \in DOMAIN src

\* The blit stays inside both buffers (otherwise the C code reads or writes
\* out of bounds; a negative width makes while(width) run away).
BlitInBounds(dst, dstx, src, srcpos, width, dx) ==
    /\ width >= 0
    /\ \A i \in 0 .. (width - 1) :
          /\ (dstx + i) \in DOMAIN dst
          /\ SrcAt(srcpos, i, dx) \in DOMAIN src

\* Columns of the destination a blit of `width` pixels at dstx addresses
BlitColumns(dstx, width) == { x \in Cols : x >= dstx /\ x < dstx + width }

\* BlitColor(scan, color, size)
BlitColor(dst, color, size) ==
    [x \in DOMAIN dst |-> IF x < size THEN color ELSE dst[x]]

\* Blit32_32(src, dst, width, blend) as used by blit_buffer32: non-zero
\* pixels of src[x1 .. x1+width) are copied to the same columns of dst.
Blit32_32(src, dst, x1, width) ==
    [x \in DOMAIN dst |->
        IF x >= x1 /\ x < x1 + width /\ src[x] # 0 THEN src[x] ELSE dst[x]]

\* BlitMosaic(src, dst, width, size, blend) as used by blit_mosaic: each
\* block of `size` pixels takes the non-zero value of its first pixel.
BlitMosaic(src, dst, x1, width, size) ==
    [x \in DOMAIN dst |->
        IF x >= x1 /\ x < x1 + width
        THEN LET b == x1 + ((x - x1) - ((x - x1) % size))
             IN  IF src[b] # 0 THEN src[b] ELSE dst[x]
        ELSE dst[x]]

\* memset(buffer, 0, n) on a row of 32-bit little-endian pixels: byte k of
\* the row belongs to pixel k \div 4; the low bytes of a pixel come first.
MemsetZero(row, n) ==
    [x \in DOMAIN row |->
        IF 4 * x + 4 <= n THEN 0
        ELSE IF 4 * x < n
             THEN (row[x] \div (256 ^ (n - 4 * x))) * (256 ^ (n - 4 * x))
             ELSE row[x]]

(* -------------------------- flip and rotation ------------------------- *)
\* Tilescan { width, height, srcx, srcy, dx, stride }
Tilescan(w, h, stride) ==
    [width |-> w, height |-> h, srcx |-> 0, srcy |-> 0, dx |-> 0, stride |-> stride]

\* process_flip: H/V flip of the scaling painter
process_flip(flags, scan) ==
    LET s1 == IF "FLIPX" \in flags
              THEN [scan EXCEPT !.dx = 0 - scan.dx, !.srcx = scan.width - 1]
              ELSE scan
    IN  IF "FLIPY" \in flags
        THEN [s1 EXCEPT !.srcy = s1.height - s1.srcy - 1]
        ELSE s1

\* process_flip_rotation: flip and 90 degree rotation of the flat painters
process_flip_rotation(flags, scan) ==
    IF "ROTATE" \in flags
    THEN LET s0 == [scan EXCEPT !.srcx = scan.srcy, !.srcy = scan.srcx,
                                !.dx = scan.dx * scan.stride]
             s1 == IF "FLIPX" \in flags
                   THEN [s0 EXCEPT !.dx = 0 - s0.dx,
                                   !.srcy = s0.height - s0.srcy - 1]
                   ELSE s0
         IN  IF "FLIPY" \in flags
             THEN [s1 EXCEPT !.srcx = s1.width - s1.srcx - 1]
             ELSE s1
    ELSE LET s1 == IF "FLIPX" \in flags
                   THEN [scan EXCEPT !.dx = 0 - scan.dx,
                                     !.srcx = scan.width - scan.srcx - 1]
                   ELSE scan
         IN  IF "FLIPY" \in flags
             THEN [s1 EXCEPT !.srcy = s1.height - s1.srcy - 1]
             ELSE s1

FlipFlags == {"FLIPX", "FLIPY", "ROTATE"}

(* ------------------------- tilesets and tilemaps ---------------------- *)
\* Tile indexes of the tileset: tile 1 is fully opaque (source index 1),
\* tile 2 has a transparent first column (source index 0) and index 2
\* elsewhere.  Tile index 0 is the empty tile.
TileIds == {1, 2}
TileArea == TileW * TileW
TilesetData ==
    [k \in 0 .. (3 * TileArea - 1) |->
        LET t == k \div TileArea
            sx == k % TileW
        IN  IF t = 0 THEN 0 ELSE IF t = 2 /\ sx = 0 THEN 0 ELSE t]

\* TLN_Tileset with palette pal
Tileset(pal) ==
    [width |-> TileW, height |-> TileW,
     hshift |-> TileShift, vshift |-> TileShift,
     hmask |-> TileW - 1, vmask |-> TileW - 1,
     tiles |-> [i \in 0 .. 2 |-> i],
     data |-> TilesetData,
     palette |-> pal]

\* Index of GetTilesetPixel(tileset, tile_index, x, y) in tileset->data
GetTilesetPixel(tileset, tile_index, x, y) ==
    tile_index * (tileset.width * tileset.height) + y * tileset.width + x

\* GetTilesetLine(tileset, tile_index, srcy)
GetTilesetLine(tileset, tile_index, srcy) == tile_index * tileset.height + srcy

\* tileset->color_key[line]: the row holds a transparent sample
ColorKey(tileset, line) ==
    \E sx \in 0 .. (tileset.width - 1) :
        tileset.data[line * tileset.width + sx] = 0

Tile(index, flags) == [index |-> index, flags |-> flags, palette |-> 0, tileset |-> 0]
EmptyTile == Tile(0, {})

NullTilemap == [null |-> TRUE]
\* TLN_Tilemap of MapCols x MapRows cells, tiles given row by row
Tilemap(tiles, pal) ==
    [null |-> FALSE, cols |-> MapCols, rows |-> MapRows,
     tiles |-> tiles, tilesets |-> [i \in {0} |-> Tileset(pal)]]

\* engine->palettes[]: the eight global palette slots, all unset
EnginePalettes == [p \in 0 .. 7 |-> 0]

(* ------------------------- bitmaps and objects ------------------------ *)
NullBitmap == [null |-> TRUE]
\* TLN_Bitmap of w x h samples, all of source index 1
Bitmap(w, h, pal) ==
    [null |-> FALSE, width |-> w, height |-> h, pitch |-> w,
     data |-> [k \in 0 .. (w * h - 1) |-> 1], palette |-> pal]

\* Index of get_bitmap_ptr(bitmap, x, y) in the bitmap's data
get_bitmap_ptr(bitmap, x, y) == y * bitmap.pitch + x

NullObjects == [null |-> TRUE]
\* struct _Object, and the TLN_ObjectList holding them in list order
Object(x, y, w, h, flags, bitmap) ==
    [x |-> x, y |-> y, width |-> w, height |-> h, flags |-> flags,
     visible |-> TRUE, bitmap |-> bitmap]
ObjectList(list) == [null |-> FALSE, list |-> list]

\* IsObjectInLine(object, x1, x2, y): the object's rectangle meets the
\* horizontal span [x1, x2) on row y
IsObjectInLine(object, x1, x2, y) ==
    /\ y >= object.y
    /\ y < object.y + object.height
    /\ object.x + object.width > x1
    /\ object.x < x2

(* -------------------------------- layers ------------------------------ *)
Rect(x1, y1, x2, y2) == [x1 |-> x1, y1 |-> y1, x2 |-> x2, y2 |-> y2]
FullClip == Rect(0, 0, W, H - 1)
NoColumn == << >>
HasColumn(layer) == DOMAIN layer.column # {}
NoMosaic == [w |-> 0, h |-> 0, buffer |-> ZeroRow]

Modes == {"FLAT", "SCALING", "AFFINE", "PIXEL_MAP"}

\* layer->transform, with integer coefficients: (x, y) goes to
\* (a*x + b*y + tx, c*x + d*y + ty)
IdentityTransform == [a |-> 1, b |-> 0, c |-> 0, d |-> 1, tx |-> 0, ty |-> 0]
\* layer->pixel_map: a displacement (dx, dy) per framebuffer pixel
NoPixelMap == [k \in 0 .. (W * H - 1) |-> [dx |-> k % W, dy |-> k \div W]]

\* painters[][] rows DRAW_TILED_LAYER, DRAW_BITMAP_LAYER, DRAW_OBJECT_LAYER
TiledPainter(mode) ==
    CASE mode = "FLAT" -> "DrawLayerScanline"
      [] mode = "SCALING" -> "DrawLayerScanlineScaling"
      [] mode = "AFFINE" -> "DrawLayerScanlineAffine"
      [] mode = "PIXEL_MAP" -> "DrawLayerScanlinePixelMapping"
BitmapPainter(mode) ==
    CASE mode = "FLAT" -> "DrawBitmapScanline"
      [] mode = "SCALING" -> "DrawBitmapScanlineScaling"
      [] mode = "AFFINE" -> "DrawBitmapScanlineAffine"
      [] mode = "PIXEL_MAP" -> "DrawBitmapScanlinePixelMapping"
ObjectPainter(mode) ==
    CASE mode = "FLAT" -> "DrawLayerObjectScanline"
      [] OTHER -> "NULL"

\* GetLayerDraw: the draw procedure of a layer configuration
GetLayerDraw(layer) ==
    IF ~layer.tilemap.null THEN TiledPainter(layer.mode)
    ELSE IF ~layer.bitmap.null THEN BitmapPainter(layer.mode)
    ELSE IF ~layer.objects.null THEN ObjectPainter(layer.mode)
    ELSE "NULL"

\* Layer: a tiled, bitmap or object background (exactly one asset, or none)
Layer(tilemap, bitmap, objects, mode, prio, clip, hstart, vstart, w, h) ==
    [ok |-> TRUE, dirty |-> FALSE, priority |-> prio, mode |-> mode,
     draw |-> "NULL", clip |-> clip, hstart |-> hstart, vstart |-> vstart,
     width |-> w, height |-> h, palette |-> 0, column |-> NoColumn,
     mosaic |-> NoMosaic, tilemap |-> tilemap, bitmap |-> bitmap,
     objects |-> objects,
     dx |-> int2fix(1), dy |-> int2fix(1), xfactor |-> int2fix(1),
     transform |-> IdentityTransform, pixel_map |-> NoPixelMap]

(* --------------------- state of one DrawScanline call ------------------ *)
\* The engine as one DrawScanline call sees it: the layers and sprites, the
\* framebuffer line `scan`, the scratch buffers, the locals
\* background_priority (bgp) and sprite_priority (sprp), the value a painter
\* returned (ret), and a record of what the call did: the steps in order
\* (trace), the pixels written (wlog: who wrote which column of which
\* buffer), the source positions the tiled painters computed (srcpos), a
\* call through a null painter handle (nullcall) and an access outside a
\* buffer (ub).

\* F applied to the value of v: one statement after another
Bind(v, F(_)) == CHOOSE r \in { F(a) : a \in {v} } : TRUE

LogWrites(e, who, id, buf, cols) ==
    [e EXCEPT !.wlog = @ \cup { [who |-> who, id |-> id, buf |-> buf, x |-> x] : x \in cols }]

\* The columns a keyed blit stores a pixel at
KeyedColumns(dst, dstx, src, srcpos, width, dx) ==
    { x \in DOMAIN dst :
        /\ x >= dstx
        /\ x < dstx + width
        /\ SrcAt(srcpos, x - dstx, dx) \in DOMAIN src
        /\ src[SrcAt(srcpos, x - dstx, dx)] # 0 }

\* Columns a scaling blit stores a pixel at
ScaledColumns(dst, dstx, src, srcpos, width, dx, keyed) ==
    { x \in DOMAIN dst :
        /\ x >= dstx
        /\ x < dstx + width
        /\ ScaledSrcAt(srcpos, x - dstx, dx) \in DOMAIN src
        /\ (keyed => src[ScaledSrcAt(srcpos, x - dstx, dx)] # 0) }

\* A step of the call: what was done, to which layer, sprite or line, and
\* the element's priority and dirty flags at that moment
Event(op, idx, prio, dirty) == [op |-> op, idx |-> idx, prio |-> prio, dirty |-> dirty]

(* ----------------------- common end-of-painter blits ------------------- *)
\* blit_mosaic: the layer's mosaic buffer onto the framebuffer line
blit_mosaic(layer, scan) ==
    BlitMosaic(layer.mosaic.buffer, scan, layer.clip.x1,
               layer.clip.x2 - layer.clip.x1, layer.mosaic.w)

\* blit_buffer32: the line buffer onto the framebuffer line
blit_buffer32(layer, linebuffer, scan) ==
    Blit32_32(linebuffer, scan, layer.clip.x1, layer.clip.x2 - layer.clip.x1)

\* Columns blit_mosaic / blit_buffer32 store a pixel at
MosaicColumns(layer) ==
    { x \in Cols :
        /\ x >= layer.clip.x1
        /\ x < layer.clip.x2
        /\ layer.mosaic.buffer[layer.clip.x1
              + ((x - layer.clip.x1) - ((x - layer.clip.x1) % layer.mosaic.w))] # 0 }
BufferColumns(layer, linebuffer) ==
    { x \in Cols : x >= layer.clip.x1 /\ x < layer.clip.x2 /\ linebuffer[x] # 0 }

\* The palette a tiled painter selects for a tile
SelectPalette(layer, tileset, tile) ==
    IF layer.palette # 0 THEN layer.palette
    ELSE IF EnginePalettes[tile.palette] # 0 THEN EnginePalettes[tile.palette]
    ELSE tileset.palette

(* ------------------- what the tiled painters share --------------------- *)
\* tilemap->tiles[cell]; a cell outside the map is read as an empty tile
TileAt(tilemap, cell) ==
    IF cell \in DOMAIN tilemap.tiles THEN tilemap.tiles[cell] ELSE EmptyTile

\* The locals of one turn of a tiled painter's loop, from ypos: the cell
\* looked up, its tile, srcy, and the source position as a record
TileLookup(layer, it, ypos) ==
    LET tilemap == layer.tilemap
        tileset0 == tilemap.tilesets[0]
        cell == Shr(ypos, tileset0.vshift) * tilemap.cols + it.xtile
    IN  [tile |-> TileAt(tilemap, cell),
         inmap |-> cell \in DOMAIN tilemap.tiles,
         scan0 |-> [it.scan EXCEPT !.srcy = Mask(ypos, tileset0.vshift)],
         tilewidth |-> tileset0.width - it.scan.srcx,
         pos |-> [width |-> layer.width, height |-> layer.height,
                  xpos |-> it.xtile * tileset0.width + it.scan.srcx,
                  ypos |-> ypos,
                  xtile |-> it.xtile,
                  ytile |-> Shr(ypos, tileset0.vshift)]]

\* "paint tile scanline": the source pointer, palette and color key of a tile
TileSource(layer, tile, scan) ==
    LET tileset == layer.tilemap.tilesets[tile.tileset]
        tile_index == tileset.tiles[tile.index]
    IN  [data |-> tileset.data,
         srcpixel |-> GetTilesetPixel(tileset, tile_index, scan.srcx, scan.srcy),
         palette |-> SelectPalette(layer, tileset, tile),
         color_key |-> ColorKey(tileset, GetTilesetLine(tileset, tile_index, scan.srcy))]

\* The destination row of a tile or object: the priority overlay when it
\* has the PRIORITY flag, else the painter's own destination
Target(it, flags) == IF "PRIORITY" \in flags THEN it.prio ELSE it.dst

\* The painter's locals after a blit that left `row` in the target
Painted(it, flags, row, cols, inb) ==
    [it EXCEPT !.dst = IF "PRIORITY" \in flags THEN @ ELSE row,
               !.prio = IF "PRIORITY" \in flags THEN row ELSE @,
               !.priority = @ \/ ("PRIORITY" \in flags),
               !.wr = @ \cup { [buf |-> IF "PRIORITY" \in flags THEN "priority" ELSE "dst",
                                 x |-> c] : c \in cols },
               !.ub = @ \/ ~inb]

\* "next tile"
NextTile(layer, it, x1, pos, fix_x, ok) ==
    [it EXCEPT !.x = x1,
               !.xtile = CRem(it.xtile + 1, layer.tilemap.cols),
               !.scan.srcx = 0,
               !.column = it.column + 1,
               !.fix_x = fix_x,
               !.ub = @ \/ ~ok,
               !.pos = @ \cup {pos}]

\* The locals of a tiled painter before its loop
TiledStart(layer, xpos, dst, prio) ==
    LET tileset0 == layer.tilemap.tilesets[0]
    IN  [x |-> layer.clip.x1,
         xtile |-> Shr(xpos, tileset0.hshift),
         column |-> CRem(layer.clip.x1, tileset0.width),
         scan |-> [Tilescan(tileset0.width, tileset0.width, tileset0.width)
                      EXCEPT !.srcx = Mask(xpos, tileset0.hshift)],
         dst |-> dst, prio |-> prio, priority |-> FALSE, ub |-> FALSE,
         wr |-> {}, pos |-> {},
         fix_x |-> int2fix(layer.clip.x1)]

WrittenColumns(wr, buf) == { v.x : v \in { u \in wr : u.buf = buf } }

\* draw_end of a painter that draws through the mosaic buffer or straight
\* to the framebuffer line, given the locals `it` its loop ended with
\* (skipped: the mosaic gate jumped to draw_end).
TiledEnd(e, nlayer, it, skipped) ==
    Bind(IF e.layers[nlayer].mosaic.h # 0 /\ ~skipped
         THEN [e.layers[nlayer] EXCEPT !.mosaic.buffer = it.dst]
         ELSE e.layers[nlayer],
      LAMBDA layer1 :
        LogWrites(
          LogWrites(
            [e EXCEPT !.layers[nlayer] = layer1,
                      !.scan = IF layer1.mosaic.h # 0 THEN blit_mosaic(layer1, e.scan)
                               ELSE IF skipped THEN e.scan ELSE it.dst,
                      !.priority = it.prio,
                      !.ub = @ \/ it.ub,
                      !.srcpos = @ \cup it.pos,
                      !.ret = it.priority],
            "layer", nlayer, "scan",
            IF layer1.mosaic.h # 0 THEN MosaicColumns(layer1)
            ELSE WrittenColumns(it.wr, "dst")),
          "layer", nlayer, "priority", WrittenColumns(it.wr, "priority")))

\* The mosaic gate at the head of the painters: whether this scanline is
\* skipped, and the row the painter draws into
MosaicSkip(layer, nscan) ==
    layer.mosaic.h # 0 /\ CRem(nscan, layer.mosaic.h) # 0
MosaicTarget(layer, scan) ==
    IF layer.mosaic.h # 0 THEN MemsetZero(layer.mosaic.buffer, W) ELSE scan

(* --------------------- tiled painter, FLAT mode ------------------------ *)
\* ypos of the FLAT painter for tile column `column`
FlatYpos(layer, nscan, column) ==
    IF HasColumn(layer)
    THEN IF CRem(layer.vstart + nscan + layer.column[column], layer.height) < 0
         THEN layer.height
              + CRem(layer.vstart + nscan + layer.column[column], layer.height)
         ELSE CRem(layer.vstart + nscan + layer.column[column], layer.height)
    ELSE CRem(layer.vstart + nscan, layer.height)

\* xpos of the FLAT painter at the left edge of the clip window
FlatXpos(layer) == CRem(layer.hstart + layer.clip.x1, layer.width)

\* The column table has an entry for tile column `column`
ColumnOk(layer, column) == ~HasColumn(layer) \/ column \in DOMAIN layer.column

\* "paint if not empty tile" of DrawLayerScanline
FlatPaint(layer, it, tile, scan0, width) ==
    Bind(IF tile.flags \cap FlipFlags # {}
         THEN process_flip_rotation(tile.flags, [scan0 EXCEPT !.dx = 1])
         ELSE [scan0 EXCEPT !.dx = 1],
      LAMBDA scan2 :
        Bind(TileSource(layer, tile, scan2),
          LAMBDA src :
            Painted([it EXCEPT !.scan = scan2], tile.flags,
                BlitKeyed(Target(it, tile.flags), it.x, src.data, src.srcpixel,
                          width, scan2.dx, src.palette),
                KeyedColumns(Target(it, tile.flags), it.x, src.data, src.srcpixel,
                             width, scan2.dx),
                BlitInBounds(Target(it, tile.flags), it.x, src.data, src.srcpixel,
                             width, scan2.dx))))

\* One turn of the loop "fill whole scanline" of DrawLayerScanline
FlatStep(layer, nscan, it) ==
    Bind(TileLookup(layer, it,
            IF ColumnOk(layer, it.column)
            THEN FlatYpos(layer, nscan, it.column)
            ELSE CRem(layer.vstart + nscan, layer.height)),
      LAMBDA t :
        Bind(IF t.tile.index # 0
             THEN FlatPaint(layer, it, t.tile, t.scan0,
                            Min(it.x + t.tilewidth, layer.clip.x2) - it.x)
             ELSE [it EXCEPT !.scan = t.scan0],
          LAMBDA drawn :
            NextTile(layer, drawn, Min(it.x + t.tilewidth, layer.clip.x2), t.pos,
                     it.fix_x, t.inmap /\ ColumnOk(layer, it.column))))

\* The loop "fill whole scanline" of DrawLayerScanline.  it: the locals x,
\* xtile, column and scan, the destination row dst (framebuffer line or
\* mosaic buffer), the priority overlay prio, the return flag priority.
RECURSIVE FlatLoop(_, _, _)
FlatLoop(layer, nscan, it) ==
    IF it.x >= layer.clip.x2 THEN it
    ELSE Bind(FlatStep(layer, nscan, it), LAMBDA it2 : FlatLoop(layer, nscan, it2))

\* DrawLayerScanline: scanline of a tiled background
DrawLayerScanline(e, nlayer, nscan) ==
    Bind(TiledStart(e.layers[nlayer], FlatXpos(e.layers[nlayer]),
                    MosaicTarget(e.layers[nlayer], e.scan), e.priority),
      LAMBDA start :
        Bind(IF MosaicSkip(e.layers[nlayer], nscan) THEN start
             ELSE FlatLoop(e.layers[nlayer], nscan, start),
          LAMBDA it :
            TiledEnd(e, nlayer, it, MosaicSkip(e.layers[nlayer], nscan))))

(* --------------------- tiled painter, SCALING mode --------------------- *)
\* xpos of the SCALING painter at the left edge of the clip window
ScalingXpos(layer) ==
    CRem(layer.hstart + fix2int(layer.clip.x1 * layer.dx), layer.width)

\* ypos of the SCALING painter from the line ypos0 (nscan plus the column
\* offset, if any)
ScalingWrap(layer, ypos0) ==
    IF layer.vstart + fix2int(ypos0 * layer.dy) < 0
    THEN layer.height + (layer.vstart + fix2int(ypos0 * layer.dy))
    ELSE CRem(layer.vstart + fix2int(ypos0 * layer.dy), layer.height)

\* ypos of the SCALING painter for tile column `column`
ScalingYpos(layer, nscan, column) ==
    ScalingWrap(layer, IF HasColumn(layer) THEN nscan + layer.column[column] ELSE nscan)

\* "paint if tile is not empty" of DrawLayerScanlineScaling
ScalingPaint(layer, it, tile, scan0, width, dx) ==
    Bind(IF tile.flags \cap {"FLIPX", "FLIPY"} # {}
         THEN process_flip(tile.flags, [scan0 EXCEPT !.dx = dx])
         ELSE [scan0 EXCEPT !.dx = dx],
      LAMBDA scan2 :
        Bind(TileSource(layer, tile, scan2),
          LAMBDA src :
            Painted([it EXCEPT !.scan = scan2], tile.flags,
                BlitScaled(Target(it, tile.flags), it.x, src.data, src.srcpixel,
                           width, scan2.dx, src.palette, src.color_key),
                ScaledColumns(Target(it, tile.flags), it.x, src.data, src.srcpixel,
                              width, scan2.dx, src.color_key),
                ScaledInBounds(Target(it, tile.flags), it.x, src.data, src.srcpixel,
                               width, scan2.dx))))

\* "get effective tile width": fix_x after the tile, its right edge x1 and
\* the source step dx of the tile
ScalingSpan(layer, it, tilewidth) ==
    Bind(it.fix_x + tilewidth * layer.xfactor,
      LAMBDA fix_x :
        [fix_x |-> fix_x,
         x1 |-> Min(fix2int(fix_x), layer.clip.x2),
         dx |-> IF fix2int(fix_x) - it.x # 0
                THEN CDiv(int2fix(tilewidth), fix2int(fix_x) - it.x)
                ELSE 0])

\* One turn of the loop "fill whole scanline" of DrawLayerScanlineScaling
ScalingStep(layer, nscan, it) ==
    Bind(TileLookup(layer, it,
            IF ColumnOk(layer, it.column)
            THEN ScalingYpos(layer, nscan, it.column)
            ELSE ScalingWrap(layer, nscan)),
      LAMBDA t :
        Bind(ScalingSpan(layer, it, t.tilewidth),
          LAMBDA sp :
            Bind(IF t.tile.index # 0
                 THEN ScalingPaint(layer, it, t.tile, t.scan0, sp.x1 - it.x, sp.dx)
                 ELSE [it EXCEPT !.scan = t.scan0],
              LAMBDA drawn :
                NextTile(layer, drawn, sp.x1, t.pos, sp.fix_x,
                         t.inmap /\ ColumnOk(layer, it.column)))))

\* The loop "fill whole scanline" of DrawLayerScanlineScaling
RECURSIVE ScalingLoop(_, _, _)
ScalingLoop(layer, nscan, it) ==
    IF it.x >= layer.clip.x2 THEN it
    ELSE Bind(ScalingStep(layer, nscan, it),
              LAMBDA it2 : ScalingLoop(layer, nscan, it2))

\* DrawLayerScanlineScaling: scanline of a tiled background with scaling
DrawLayerScanlineScaling(e, nlayer, nscan) ==
    Bind(TiledStart(e.layers[nlayer], ScalingXpos(e.layers[nlayer]),
                    MosaicTarget(e.layers[nlayer], e.scan), e.priority),
      LAMBDA start :
        Bind(IF MosaicSkip(e.layers[nlayer], nscan) THEN start
             ELSE ScalingLoop(e.layers[nlayer], nscan, start),
          LAMBDA it :
            TiledEnd(e, nlayer, it, MosaicSkip(e.layers[nlayer], nscan))))

(* ----------------------------- object painter -------------------------- *)
\* tmpobject: the object with width and height swapped when rotated
RotatedObject(object) ==
    IF "ROTATE" \in object.flags
    THEN [object EXCEPT !.width = object.height, !.height = object.width]
    ELSE object

\* The clipped destination range of an object and its source origin:
\* dstx1, the width w and srcx ("handling left-of-clip trim")
ObjectSpan(layer, tmpobject) ==
    Bind(tmpobject.x - (layer.hstart + layer.clip.x1),
      LAMBDA d1 :
        Bind([dstx1 |-> IF d1 < layer.clip.x1 THEN 0 ELSE d1,
              dstx2 |-> IF d1 + tmpobject.width > layer.clip.x2
                        THEN layer.clip.x2
                        ELSE d1 + tmpobject.width,
              srcx |-> IF d1 < layer.clip.x1 THEN layer.clip.x1 - d1 ELSE 0],
          LAMBDA r :
            [dstx1 |-> r.dstx1, w |-> r.dstx2 - r.dstx1, srcx |-> r.srcx]))

\* The blit of one object that is in the line
ObjectPaint(layer, nscan, it, tmpobject, span) ==
    Bind(IF tmpobject.flags \cap FlipFlags # {}
         THEN process_flip_rotation(tmpobject.flags,
                [Tilescan(tmpobject.bitmap.width, tmpobject.bitmap.height,
                          tmpobject.bitmap.pitch)
                    EXCEPT !.srcx = span.srcx,
                           !.srcy = (layer.vstart + nscan) - tmpobject.y,
                           !.dx = 1])
         ELSE [Tilescan(tmpobject.bitmap.width, tmpobject.bitmap.height,
                        tmpobject.bitmap.pitch)
                  EXCEPT !.srcx = span.srcx,
                         !.srcy = (layer.vstart + nscan) - tmpobject.y,
                         !.dx = 1],
      LAMBDA scan :
        Painted(it, tmpobject.flags,
            BlitKeyed(Target(it, tmpobject.flags), span.dstx1, tmpobject.bitmap.data,
                      get_bitmap_ptr(tmpobject.bitmap, scan.srcx, scan.srcy),
                      span.w, scan.dx, tmpobject.bitmap.palette),
            KeyedColumns(Target(it, tmpobject.flags), span.dstx1, tmpobject.bitmap.data,
                         get_bitmap_ptr(tmpobject.bitmap, scan.srcx, scan.srcy),
                         span.w, scan.dx),
            BlitInBounds(Target(it, tmpobject.flags), span.dstx1, tmpobject.bitmap.data,
                         get_bitmap_ptr(tmpobject.bitmap, scan.srcx, scan.srcy),
                         span.w, scan.dx)))

\* One object of DrawLayerObjectScanline.  it: the framebuffer line dst,
\* the overlay prio, the return flag priority, the written columns wr.
ObjectStep(layer, nscan, it, tmpobject) ==
    IF /\ IsObjectInLine(tmpobject, layer.hstart + layer.clip.x1,
                         layer.hstart + layer.clip.x2, layer.vstart + nscan)
       /\ tmpobject.visible
       /\ ~tmpobject.bitmap.null
    THEN Bind(ObjectSpan(layer, tmpobject),
              LAMBDA span : ObjectPaint(layer, nscan, it, tmpobject, span))
    ELSE it

\* The walk over the object list, from object number k
RECURSIVE ObjectLoop(_, _, _, _)
ObjectLoop(layer, nscan, it, k) ==
    IF k > Len(layer.objects.list) THEN it
    ELSE Bind(ObjectStep(layer, nscan, it, RotatedObject(layer.objects.list[k])),
              LAMBDA it2 : ObjectLoop(layer, nscan, it2, k + 1))

\* DrawLayerObjectScanline: scanline of an object layer
DrawLayerObjectScanline(e, nlayer, nscan) ==
    Bind(ObjectLoop(e.layers[nlayer], nscan,
            [dst |-> e.scan, prio |-> e.priority, priority |-> FALSE,
             wr |-> {}, ub |-> FALSE], 1),
      LAMBDA it :
        LogWrites(
          LogWrites([e EXCEPT !.scan = it.dst, !.priority = it.prio,
                              !.ub = @ \/ it.ub, !.ret = it.priority],
                    "layer", nlayer, "scan", WrittenColumns(it.wr, "dst")),
          "layer", nlayer, "priority", WrittenColumns(it.wr, "priority")))

(* ------------------ painters that sample pixel by pixel ---------------- *)
Abs(a) == IF a < 0 THEN 0 - a ELSE a

\* Point2DMultiply and float2fix: the fixed-point image of the point (x, y)
TransformX(layer, x, y) ==
    int2fix(layer.transform.a * x + layer.transform.b * y + layer.transform.tx)
TransformY(layer, x, y) ==
    int2fix(layer.transform.c * x + layer.transform.d * y + layer.transform.ty)

\* The head of the painters that draw through the line buffer: the row
\* they store samples in, after its memset
SampleTarget(layer, linebuffer) ==
    IF layer.mosaic.h # 0 THEN MemsetZero(layer.mosaic.buffer, W)
    ELSE MemsetZero(linebuffer, 4 * W)

\* Tilescan scan = { 0 } with the size of the tiles, in the tiled painters
SampleScan(layer) ==
    IF layer.tilemap.null THEN Tilescan(0, 0, 0)
    ELSE Tilescan(layer.tilemap.tilesets[0].width, layer.tilemap.tilesets[0].width,
                  layer.tilemap.tilesets[0].width)

\* The locals of the AFFINE painters before their loop: x, the fixed-point
\* source position (x1, y1) and its step (dx, dy) per pixel
AffineStart(layer, nscan, row) ==
    [x |-> layer.clip.x1, i |-> 0, row |-> row, ub |-> layer.clip.x2 = 0,
     scan |-> SampleScan(layer), xtile |-> 0, wr |-> {}, samples |-> {},
     x1 |-> TransformX(layer, layer.hstart, layer.vstart + nscan),
     y1 |-> TransformY(layer, layer.hstart, layer.vstart + nscan),
     dx |-> IF layer.clip.x2 = 0 THEN 0
            ELSE CDiv(TransformX(layer, layer.hstart + layer.clip.x2, layer.vstart + nscan)
                        - TransformX(layer, layer.hstart, layer.vstart + nscan),
                      layer.clip.x2),
     dy |-> IF layer.clip.x2 = 0 THEN 0
            ELSE CDiv(TransformY(layer, layer.hstart + layer.clip.x2, layer.vstart + nscan)
                        - TransformY(layer, layer.hstart, layer.vstart + nscan),
                      layer.clip.x2)]

\* The locals of the PIXEL_MAP painters before their loop
PixelMapStart(layer, row) ==
    [x |-> layer.clip.x1, i |-> 0, row |-> row, ub |-> FALSE,
     scan |-> SampleScan(layer), xtile |-> 0, wr |-> {}, samples |-> {},
     x1 |-> 0, y1 |-> 0, dx |-> 0, dy |-> 0]

\* xpos and ypos of the AFFINE painters for the current pixel
AffinePos(layer, it) ==
    [xpos |-> CRem(Abs(fix2int(it.x1) + layer.width), layer.width),
     ypos |-> CRem(Abs(fix2int(it.y1) + layer.height), layer.height),
     ok |-> TRUE]

\* xpos and ypos of the PIXEL_MAP painters for the current pixel
PixelMapPos(layer, nscan, it) ==
    IF (nscan * W + it.x) \in DOMAIN layer.pixel_map
    THEN [xpos |-> CRem(Abs(layer.hstart + layer.width
                              + layer.pixel_map[nscan * W + it.x].dx), layer.width),
          ypos |-> CRem(Abs(layer.vstart + layer.height
                              + layer.pixel_map[nscan * W + it.x].dy), layer.height),
          ok |-> TRUE]
    ELSE [xpos |-> 0, ypos |-> 0, ok |-> FALSE]

\* *dstpixel = value, and "next pixel"
StorePixel(it, value, drawn, ok) ==
    [it EXCEPT !.row = IF drawn /\ it.i \in DOMAIN it.row
                       THEN [@ EXCEPT ![it.i] = value] ELSE @,
               !.wr = IF drawn THEN @ \cup {[buf |-> "dst", x |-> it.i]} ELSE @,
               !.samples = @ \cup {[x |-> it.x, at |-> it.i, drawn |-> drawn,
                                     value |-> IF drawn THEN value ELSE 0]},
               !.ub = @ \/ ~ok \/ (drawn /\ it.i \notin DOMAIN it.row),
               !.x = it.x + 1,
               !.i = it.i + 1,
               !.x1 = it.x1 + it.dx,
               !.y1 = it.y1 + it.dy]

\* The sample of a tiled layer at (xpos, ypos): "paint if not empty tile"
\* of the AFFINE and PIXEL_MAP tiled painters
TileSample(layer, it, tile, scan0, inmap, ok) ==
    IF tile.index # 0
    THEN Bind(IF tile.flags \cap FlipFlags # {}
              THEN process_flip_rotation(tile.flags, scan0)
              ELSE scan0,
           LAMBDA scan2 :
             Bind(TileSource(layer, tile, scan2),
               LAMBDA src :
                 StorePixel([it EXCEPT !.scan = scan2],
                    IF src.srcpixel \in DOMAIN src.data
                    THEN PaletteData(IF layer.palette # 0 THEN layer.palette
                                     ELSE layer.tilemap.tilesets[tile.tileset].palette,
                                     src.data[src.srcpixel])
                    ELSE 0,
                    TRUE,
                    ok /\ inmap /\ src.srcpixel \in DOMAIN src.data)))
    ELSE StorePixel([it EXCEPT !.scan = scan0], 0, FALSE, ok /\ inmap)

\* One pixel of a tiled layer sampled at p = (xpos, ypos)
TilePixel(layer, it, p) ==
    Bind(TileLookup(layer,
            [it EXCEPT !.scan.srcx = Mask(p.xpos, layer.tilemap.tilesets[0].hshift),
                       !.xtile = Shr(p.xpos, layer.tilemap.tilesets[0].hshift)],
            p.ypos),
      LAMBDA t : TileSample(layer, it, t.tile, t.scan0, t.inmap, p.ok))

\* One pixel of a bitmap layer sampled at p = (xpos, ypos)
BitmapPixel(layer, it, p, pal) ==
    IF get_bitmap_ptr(layer.bitmap, p.xpos, p.ypos) \in DOMAIN layer.bitmap.data
    THEN StorePixel(it,
            PaletteData(pal, layer.bitmap.data[get_bitmap_ptr(layer.bitmap, p.xpos, p.ypos)]),
            TRUE, p.ok /\ pal # 0)
    ELSE StorePixel(it, 0, TRUE, FALSE)

\* The loops of the four painters: kind is "AFFINE" or "PIXEL_MAP", tiled
\* tells a tilemap from a bitmap, limit is the loop bound `width`
RECURSIVE SampleLoop(_, _, _, _, _, _)
SampleLoop(layer, nscan, kind, tiled, limit, it) ==
    IF it.x >= limit THEN it
    ELSE Bind(IF kind = "AFFINE" THEN AffinePos(layer, it)
              ELSE PixelMapPos(layer, nscan, it),
           LAMBDA p :
             Bind(IF tiled THEN TilePixel(layer, it, p)
                  ELSE BitmapPixel(layer, it, p,
                          IF kind = "AFFINE" /\ layer.palette = 0
                          THEN layer.bitmap.palette ELSE layer.palette),
               LAMBDA it2 : SampleLoop(layer, nscan, kind, tiled, limit, it2)))

\* draw_end of the painters that draw through the line buffer
SampleEnd(e, nlayer, it, skipped, ret) ==
    Bind(IF e.layers[nlayer].mosaic.h # 0 /\ ~skipped
         THEN [e.layers[nlayer] EXCEPT !.mosaic.buffer = it.row]
         ELSE e.layers[nlayer],
      LAMBDA layer1 :
        LogWrites(
            [e EXCEPT !.layers[nlayer] = layer1,
                      !.linebuffer = IF layer1.mosaic.h # 0 THEN @ ELSE it.row,
                      !.scan = IF layer1.mosaic.h # 0 THEN blit_mosaic(layer1, e.scan)
                               ELSE blit_buffer32(layer1, it.row, e.scan),
                      !.ub = @ \/ it.ub,
                      !.samples = @ \cup { [id |-> nlayer, x |-> v.x, at |-> v.at,
                                             drawn |-> v.drawn, value |-> v.value] :
                                             v \in it.samples },
                      !.ret = ret],
            "layer", nlayer, "scan",
            IF layer1.mosaic.h # 0 THEN MosaicColumns(layer1)
            ELSE BufferColumns(layer1, it.row)))

\* The painter of the given kind from its head to draw_end
SamplePainter(e, nlayer, nscan, kind, tiled, ret) ==
    Bind(IF kind = "AFFINE"
         THEN AffineStart(e.layers[nlayer], nscan,
                          SampleTarget(e.layers[nlayer], e.linebuffer))
         ELSE PixelMapStart(e.layers[nlayer],
                            SampleTarget(e.layers[nlayer], e.linebuffer)),
      LAMBDA start :
        Bind(IF MosaicSkip(e.layers[nlayer], nscan) THEN start
             ELSE SampleLoop(e.layers[nlayer], nscan, kind, tiled,
                             IF kind = "AFFINE" THEN e.layers[nlayer].clip.x2
                             ELSE e.layers[nlayer].clip.x2 - e.layers[nlayer].clip.x1,
                             start),
          LAMBDA it :
            SampleEnd(e, nlayer, it, MosaicSkip(e.layers[nlayer], nscan), ret)))

\* DrawLayerScanlineAffine: tiled background with affine transform
DrawLayerScanlineAffine(e, nlayer, nscan) ==
    SamplePainter(e, nlayer, nscan, "AFFINE", TRUE, FALSE)

\* DrawLayerScanlinePixelMapping: tiled background with per-pixel mapping
DrawLayerScanlinePixelMapping(e, nlayer, nscan) ==
    SamplePainter(e, nlayer, nscan, "PIXEL_MAP", TRUE, TRUE)

\* DrawBitmapScanlineAffine: bitmap background with affine transform
DrawBitmapScanlineAffine(e, nlayer, nscan) ==
    SamplePainter(e, nlayer, nscan, "AFFINE", FALSE, FALSE)

\* DrawBitmapScanlinePixelMapping: bitmap background with per-pixel mapping
DrawBitmapScanlinePixelMapping(e, nlayer, nscan) ==
    SamplePainter(e, nlayer, nscan, "PIXEL_MAP", FALSE, FALSE)

(* --------------------------- bitmap painters --------------------------- *)
\* The locals of the FLAT and SCALING bitmap painters before their loop
BitmapStart(layer, xpos, dst, prio) ==
    [x |-> layer.clip.x1, xpos |-> xpos, dst |-> dst, prio |-> prio,
     priority |-> FALSE, ub |-> FALSE, wr |-> {}, pos |-> {},
     fix_x |-> int2fix(layer.clip.x1)]

\* The palette of the FLAT and SCALING bitmap painters
BitmapPalette(layer) ==
    IF layer.palette # 0 THEN layer.palette ELSE layer.bitmap.palette

\* One span of the bitmap: the blit of `width` pixels from (xpos, ypos)
\* with source step dx, and "next"
BitmapSpan(layer, it, ypos, x1, dx, fix_x, scaled) ==
    [it EXCEPT
        !.dst = IF scaled
                THEN BlitScaled(@, it.x, layer.bitmap.data,
                                get_bitmap_ptr(layer.bitmap, it.xpos, ypos),
                                x1 - it.x, dx, BitmapPalette(layer), TRUE)
                ELSE BlitKeyed(@, it.x, layer.bitmap.data,
                               get_bitmap_ptr(layer.bitmap, it.xpos, ypos),
                               x1 - it.x, dx, BitmapPalette(layer)),
        !.wr = @ \cup { [buf |-> "dst", x |-> c] :
                          c \in IF scaled
                                THEN ScaledColumns(it.dst, it.x, layer.bitmap.data,
                                        get_bitmap_ptr(layer.bitmap, it.xpos, ypos),
                                        x1 - it.x, dx, TRUE)
                                ELSE KeyedColumns(it.dst, it.x, layer.bitmap.data,
                                        get_bitmap_ptr(layer.bitmap, it.xpos, ypos),
                                        x1 - it.x, dx) },
        !.ub = @ \/ ~(IF scaled
                      THEN ScaledInBounds(it.dst, it.x, layer.bitmap.data,
                              get_bitmap_ptr(layer.bitmap, it.xpos, ypos), x1 - it.x, dx)
                      ELSE BlitInBounds(it.dst, it.x, layer.bitmap.data,
                              get_bitmap_ptr(layer.bitmap, it.xpos, ypos), x1 - it.x, dx)),
        !.x = x1,
        !.xpos = 0,
        !.fix_x = fix_x]

\* "draws bitmap scanline": the loop of DrawBitmapScanline
RECURSIVE BitmapLoop(_, _, _)
BitmapLoop(layer, nscan, it) ==
    IF it.x >= layer.clip.x2 THEN it
    ELSE Bind(BitmapSpan(layer, it, CRem(layer.vstart + nscan, layer.height),
                         Min(it.x + (layer.width - it.xpos), layer.clip.x2),
                         1, it.fix_x, FALSE),
              LAMBDA it2 : BitmapLoop(layer, nscan, it2))

\* DrawBitmapScanline: bitmap background
DrawBitmapScanline(e, nlayer, nscan) ==
    Bind(BitmapStart(e.layers[nlayer], FlatXpos(e.layers[nlayer]),
                     MosaicTarget(e.layers[nlayer], e.scan), e.priority),
      LAMBDA start :
        Bind(IF MosaicSkip(e.layers[nlayer], nscan) THEN start
             ELSE BitmapLoop(e.layers[nlayer], nscan, start),
          LAMBDA it :
            TiledEnd(e, nlayer, it, MosaicSkip(e.layers[nlayer], nscan))))

\* "fill whole scanline": the loop of DrawBitmapScanlineScaling
RECURSIVE BitmapScalingLoop(_, _, _)
BitmapScalingLoop(layer, nscan, it) ==
    IF it.x >= layer.clip.x2 THEN it
    ELSE Bind(ScalingSpan(layer, it, layer.width - it.xpos),
           LAMBDA sp :
             Bind(BitmapSpan(layer, it, ScalingWrap(layer, nscan),
                             sp.x1, sp.dx, sp.fix_x, TRUE),
                  LAMBDA it2 : BitmapScalingLoop(layer, nscan, it2)))

\* DrawBitmapScanlineScaling: bitmap background with scaling
DrawBitmapScanlineScaling(e, nlayer, nscan) ==
    Bind(BitmapStart(e.layers[nlayer], ScalingXpos(e.layers[nlayer]),
                     MosaicTarget(e.layers[nlayer], e.scan), e.priority),
      LAMBDA start :
        Bind(IF MosaicSkip(e.layers[nlayer], nscan) THEN start
             ELSE BitmapScalingLoop(e.layers[nlayer], nscan, start),
          LAMBDA it :
            TiledEnd(e, nlayer, it, MosaicSkip(e.layers[nlayer], nscan))))

(* -------------------------------- sprites ------------------------------ *)
\* Sprite over a source bitmap of info.w x info.h samples `pixels`
Sprite(flags, dstrect, srcrect, w, h, pixels, pal, do_collision, next) ==
    [flags |-> flags, dstrect |-> dstrect, srcrect |-> srcrect,
     info |-> [w |-> w, h |-> h], pitch |-> w, pixels |-> pixels,
     palette |-> pal, do_collision |-> do_collision, collision |-> FALSE,
     world_space |-> FALSE, dirty |-> FALSE,
     x |-> dstrect.x1, y |-> dstrect.y1, xworld |-> 0, yworld |-> 0,
     mode |-> "FLAT", dx |-> int2fix(1), dy |-> int2fix(1),
     next |-> next]

\* UpdateSprite: the screen rectangle of the sprite at (x, y), clipped to
\* the framebuffer, and the part of the source it shows
UpdateSprite(sprite) ==
    LET x1 == Max(sprite.x, 0)
        y1 == Max(sprite.y, 0)
        x2 == Min(sprite.x + sprite.info.w, W)
        y2 == Min(sprite.y + sprite.info.h, H)
    IN  [sprite EXCEPT
            !.dstrect = Rect(x1, y1, x2, y2),
            !.srcrect = Rect(x1 - sprite.x, y1 - sprite.y,
                             x2 - sprite.x, y2 - sprite.y)]

\* check_sprite_coverage without the test of the sprite mask region
check_sprite_coverage_unmasked(sprite, nscan, mask) ==
    IF nscan < sprite.dstrect.y1 \/ nscan >= sprite.dstrect.y2 THEN FALSE
    ELSE IF sprite.dstrect.x2 < 0 \/ sprite.srcrect.x2 < 0 THEN FALSE
    ELSE TRUE

\* check_sprite_coverage
check_sprite_coverage(sprite, nscan, mask) ==
    IF nscan < sprite.dstrect.y1 \/ nscan >= sprite.dstrect.y2 THEN FALSE
    ELSE IF sprite.dstrect.x2 < 0 \/ sprite.srcrect.x2 < 0 THEN FALSE
    ELSE IF /\ "MASKED" \in sprite.flags
            /\ nscan >= mask.top
            /\ nscan <= mask.bottom THEN FALSE
    ELSE TRUE

\* CollisionPixel that flags the sprite being drawn only
CollisionPixelOneSided(st, nsprite, src, k, x) ==
    IF k \in DOMAIN src /\ x \in Cols
    THEN IF src[k] # 0
         THEN IF st.collision[x] # NoSprite
              THEN [st EXCEPT !.sprites[nsprite].collision = TRUE,
                              !.collision[x] = nsprite]
              ELSE [st EXCEPT !.collision[x] = nsprite]
         ELSE st
    ELSE [st EXCEPT !.ub = TRUE]

\* One pixel of the loop of DrawSpriteCollision: source sample k, slot x.
\* st: the collision buffer and the sprites (for their collision flags).
CollisionPixel(st, nsprite, src, k, x) ==
    IF k \in DOMAIN src /\ x \in Cols
    THEN IF src[k] # 0
         THEN IF st.collision[x] # NoSprite
              THEN [st EXCEPT
                      !.sprites = [n \in DOMAIN st.sprites |->
                          IF n = nsprite \/ n = st.collision[x]
                          THEN [st.sprites[n] EXCEPT !.collision = TRUE]
                          ELSE st.sprites[n]],
                      !.ub = @ \/ st.collision[x] \notin DOMAIN st.sprites,
                      !.collision[x] = nsprite]
              ELSE [st EXCEPT !.collision[x] = nsprite]
         ELSE st
    ELSE [st EXCEPT !.ub = TRUE]

\* DrawSpriteCollision: the loop over `width` pixels from pixel i on
RECURSIVE DrawSpriteCollision(_, _, _, _, _, _, _, _)
DrawSpriteCollision(st, nsprite, src, srcpos, dstx, width, dx, i) ==
    IF i >= width THEN st
    ELSE Bind(CollisionPixel(st, nsprite, src, SrcAt(srcpos, i, dx), dstx + i),
              LAMBDA st2 : DrawSpriteCollision(st2, nsprite, src, srcpos, dstx,
                                               width, dx, i + 1))

\* The Tilescan of DrawSpriteScanline after "process rotate & flip flags"
SpriteScan(sprite, nscan) ==
    IF (IF "ROTATE" \in sprite.flags /\ sprite.info.w # sprite.info.h
        THEN sprite.flags \ {"ROTATE"}
        ELSE sprite.flags) \cap FlipFlags # {}
    THEN process_flip_rotation(
            IF "ROTATE" \in sprite.flags /\ sprite.info.w # sprite.info.h
            THEN sprite.flags \ {"ROTATE"}
            ELSE sprite.flags,
            [Tilescan(sprite.info.w, sprite.info.h, sprite.pitch)
                EXCEPT !.srcx = sprite.srcrect.x1,
                       !.srcy = sprite.srcrect.y1 + (nscan - sprite.dstrect.y1),
                       !.dx = 1])
    ELSE [Tilescan(sprite.info.w, sprite.info.h, sprite.pitch)
             EXCEPT !.srcx = sprite.srcrect.x1,
                    !.srcy = sprite.srcrect.y1 + (nscan - sprite.dstrect.y1),
                    !.dx = 1]

\* "blit scanline" of DrawSpriteScanline and the collision pass after it
SpriteBlit(e, nsprite, sprite, srcpixel, w, dx) ==
    Bind(LogWrites(
            [e EXCEPT !.scan = BlitKeyed(e.scan, sprite.dstrect.x1, sprite.pixels,
                                         srcpixel, w, dx, sprite.palette),
                      !.ub = @ \/ ~BlitInBounds(e.scan, sprite.dstrect.x1,
                                                sprite.pixels, srcpixel, w, dx),
                      !.ret = TRUE],
            "sprite", nsprite, "scan",
            KeyedColumns(e.scan, sprite.dstrect.x1, sprite.pixels, srcpixel, w, dx)),
      LAMBDA e1 :
        IF sprite.do_collision
        THEN Bind(DrawSpriteCollision(
                    [collision |-> e1.collision, sprites |-> e1.sprites, ub |-> FALSE],
                    nsprite, sprite.pixels, srcpixel, sprite.dstrect.x1, w, dx, 0),
               LAMBDA st :
                 [e1 EXCEPT !.collision = st.collision, !.sprites = st.sprites,
                            !.ub = @ \/ st.ub])
        ELSE e1)

\* DrawSpriteScanline: scanline of a sprite
DrawSpriteScanline(e, nsprite, nscan) ==
    Bind(SpriteScan(e.sprites[nsprite], nscan),
      LAMBDA scan :
        SpriteBlit(e, nsprite, e.sprites[nsprite],
                   scan.srcy * e.sprites[nsprite].pitch + scan.srcx,
                   e.sprites[nsprite].dstrect.x2 - e.sprites[nsprite].dstrect.x1,
                   scan.dx))

\* The scaling blitter and DrawSpriteCollisionScaling: pixel i reads the
\* source sample at srcpixel + srcx / (1 << FIXED_BITS), srcx advanced by dx
\* for every pixel before it
ScalingSrcAt(srcpixel, srcx, i, dx) == srcpixel + CDiv(srcx + i * dx, 2 ^ FIXED_BITS)

\* The columns the scaling blitter of a sprite stores a pixel at
ScalingColumns(dst, dstx, src, srcpixel, width, dx, srcx) ==
    { x \in DOMAIN dst :
        /\ dstx <= x /\ x < dstx + width
        /\ ScalingSrcAt(srcpixel, srcx, x - dstx, dx) \in DOMAIN src
        /\ src[ScalingSrcAt(srcpixel, srcx, x - dstx, dx)] # 0 }

\* The scaling blitter of a sprite, keyed
BlitScalingKeyed(dst, dstx, src, srcpixel, width, dx, srcx, pal) ==
    [x \in DOMAIN dst |->
        IF x \in ScalingColumns(dst, dstx, src, srcpixel, width, dx, srcx)
        THEN PaletteData(pal, src[ScalingSrcAt(srcpixel, srcx, x - dstx, dx)])
        ELSE dst[x]]

\* Every access of the scaling blitter lies inside its buffers
ScalingInBounds(dst, dstx, src, srcpixel, width, dx, srcx) ==
    \A i \in 0 .. (width - 1) :
        /\ dstx + i \in DOMAIN dst
        /\ ScalingSrcAt(srcpixel, srcx, i, dx) \in DOMAIN src

\* DrawSpriteCollisionScaling: the loop over `width` pixels from pixel i on
RECURSIVE DrawSpriteCollisionScaling(_, _, _, _, _, _, _, _, _)
DrawSpriteCollisionScaling(st, nsprite, src, srcpixel, dstx, width, dx, srcx, i) ==
    IF i >= width THEN st
    ELSE Bind(CollisionPixel(st, nsprite, src, ScalingSrcAt(srcpixel, srcx, i, dx),
                             dstx + i),
              LAMBDA st2 : DrawSpriteCollisionScaling(st2, nsprite, src, srcpixel,
                                                      dstx, width, dx, srcx, i + 1))

\* srcx of DrawScalingSpriteScanline after "H/V flip"
ScalingSrcx(sprite) ==
    IF "FLIPX" \in sprite.flags
    THEN int2fix(sprite.info.w) - sprite.srcrect.x1
    ELSE sprite.srcrect.x1

\* dx of DrawScalingSpriteScanline after "H/V flip"
ScalingDx(sprite) ==
    IF "FLIPX" \in sprite.flags THEN -sprite.dx ELSE sprite.dx

\* srcy of DrawScalingSpriteScanline after "H/V flip"
ScalingSrcy(sprite, nscan) ==
    IF "FLIPY" \in sprite.flags
    THEN int2fix(sprite.info.h)
            - (sprite.srcrect.y1 + (nscan - sprite.dstrect.y1) * sprite.dy)
    ELSE sprite.srcrect.y1 + (nscan - sprite.dstrect.y1) * sprite.dy

\* "blit scanline" of DrawScalingSpriteScanline and the collision pass after
\* it; srcy, srcx, dx as "H/V flip" left them
ScalingBlit(e, nsprite, sprite, srcy, srcx, dx) ==
    Bind(LogWrites(
            [e EXCEPT !.scan = BlitScalingKeyed(e.scan, sprite.dstrect.x1, sprite.pixels,
                                   fix2int(srcy) * sprite.pitch,
                                   sprite.dstrect.x2 - sprite.dstrect.x1, dx, srcx,
                                   sprite.palette),
                      !.ub = @ \/ ~ScalingInBounds(e.scan, sprite.dstrect.x1,
                                       sprite.pixels, fix2int(srcy) * sprite.pitch,
                                       sprite.dstrect.x2 - sprite.dstrect.x1, dx, srcx),
                      !.scaled = @ \cup
                          { [id |-> nsprite, row |-> fix2int(srcy),
                             col |-> CDiv(srcx, 2 ^ FIXED_BITS),
                             w |-> sprite.info.w, h |-> sprite.info.h] },
                      !.ret = TRUE],
            "sprite", nsprite, "scan",
            ScalingColumns(e.scan, sprite.dstrect.x1, sprite.pixels,
                           fix2int(srcy) * sprite.pitch,
                           sprite.dstrect.x2 - sprite.dstrect.x1, dx, srcx)),
      LAMBDA e1 :
        IF sprite.do_collision
        THEN Bind(DrawSpriteCollisionScaling(
                    [collision |-> e1.collision, sprites |-> e1.sprites, ub |-> FALSE],
                    nsprite, sprite.pixels, fix2int(srcy) * sprite.pitch,
                    sprite.dstrect.x1, sprite.dstrect.x2 - sprite.dstrect.x1,
                    dx, srcx, 0),
               LAMBDA st :
                 [e1 EXCEPT !.collision = st.collision, !.sprites = st.sprites,
                            !.ub = @ \/ st.ub])
        ELSE e1)

\* DrawScalingSpriteScanline: scanline of a sprite with scaling
DrawScalingSpriteScanline(e, nsprite, nscan) ==
    ScalingBlit(e, nsprite, e.sprites[nsprite],
                ScalingSrcy(e.sprites[nsprite], nscan),
                ScalingSrcx(e.sprites[nsprite]),
                ScalingDx(e.sprites[nsprite]))

\* GetSpriteDraw: painters[DRAW_SPRITE][mode]
GetSpriteDraw(mode) ==
    CASE mode = "FLAT" -> "DrawSpriteScanline"
      [] mode = "SCALING" -> "DrawScalingSpriteScanline"
      [] OTHER -> "NULL"

\* sprite->draw(index, line)
SpriteDraw(e, nsprite, nscan) ==
    CASE GetSpriteDraw(e.sprites[nsprite].mode) = "DrawSpriteScanline" ->
            DrawSpriteScanline(e, nsprite, nscan)
      [] GetSpriteDraw(e.sprites[nsprite].mode) = "DrawScalingSpriteScanline" ->
            DrawScalingSpriteScanline(e, nsprite, nscan)
      [] OTHER -> [e EXCEPT !.nullcall = TRUE]

(* ------------------------------- the engine ---------------------------- *)
VARIABLES
    line,           \* engine->line
    dirty,          \* engine->dirty
    cb_raster,      \* engine->cb_raster: "NULL", or the kind of callback set
    bg,             \* bgcolor, bgbitmap, bgpalette
    layers,         \* engine->layers[]
    sprites,        \* engine->sprites[]
    list_first,     \* engine->list_sprites.first (-1: empty list)
    sprite_mask,    \* sprite_mask_top, sprite_mask_bottom
    world,          \* xworld, yworld
    framebuffer,    \* the framebuffer, line by line
    priority,       \* engine->priority, the priority overlay
    collision,      \* engine->collision, the collision buffer
    linebuffer,     \* engine->linebuffer, the line scratch buffer
    ret,            \* what the last DrawScanline call returned
    ncalls,         \* DrawScanline calls returned since the frame began
    fault,          \* "none", or how the program ended
    last,           \* the line the last DrawScanline call drew
    trace,          \* the steps of the last DrawScanline call, in order
    wlog,           \* the pixels the last DrawScanline call wrote
    srcpos,         \* source positions its tiled painters computed
    samples,        \* the pixels its per-pixel painters sampled and stored
    scaled,         \* source positions its scaled sprite painter computed
    stale           \* layers whose update was pending after its raster callback

vars == << line, dirty, cb_raster, bg, layers, sprites, list_first, sprite_mask,
           world, framebuffer, priority, collision, linebuffer, ret, ncalls,
           fault, last, trace, wlog, srcpos, samples, scaled, stale >>

Log(e, ev) == [e EXCEPT !.trace = Append(@, ev)]

(* ------------------------- host and raster callback -------------------- *)
\* What the host, between two calls or from the raster callback, does to
\* the engine: nothing, mark the engine or a layer dirty, change the mode
\* of layer 0 (which marks the layer dirty).
Nop == [kind |-> "nop", c |-> 0, mode |-> "FLAT"]
MutationModes == {"FLAT", "SCALING"}
Mutations ==
    {Nop, [kind |-> "engine_dirty", c |-> 0, mode |-> "FLAT"]}
    \cup { [kind |-> "layer_dirty", c |-> c, mode |-> "FLAT"] : c \in LayerIds }
    \cup { [kind |-> "layer_mode", c |-> 0, mode |-> m] : m \in MutationModes }

\* What a raster callback of kind cb may do when it is called: "nop" leaves
\* the engine alone, "mutator" does any one of the mutations
CallbackMutations(cb) == IF cb = "mutator" THEN Mutations ELSE {Nop}

MutateLayers(ls, m) ==
    CASE m.kind = "layer_dirty" -> [ls EXCEPT ![m.c].dirty = TRUE]
      [] m.kind = "layer_mode" -> [ls EXCEPT ![m.c].mode = m.mode, ![m.c].dirty = TRUE]
      [] OTHER -> ls
MutateDirty(d, m) == d \/ m.kind = "engine_dirty"

\* UpdateLayer(c): recompute the layer's cached draw procedure
UpdateLayer(e, c) ==
    Log([e EXCEPT !.layers[c].draw = GetLayerDraw(e.layers[c])],
        Event("UpdateLayer", c, e.layers[c].priority, e.layers[c].dirty))

(* ------------------------------ DrawScanline --------------------------- *)
\* layer->draw(c, line): the call through the layer's painter handle
CallPainter(e, c, nscan) ==
    CASE e.layers[c].draw = "DrawLayerScanline" -> DrawLayerScanline(e, c, nscan)
      [] e.layers[c].draw = "DrawLayerScanlineScaling" ->
            DrawLayerScanlineScaling(e, c, nscan)
      [] e.layers[c].draw = "DrawLayerObjectScanline" ->
            DrawLayerObjectScanline(e, c, nscan)
      [] e.layers[c].draw = "DrawLayerScanlineAffine" ->
            DrawLayerScanlineAffine(e, c, nscan)
      [] e.layers[c].draw = "DrawLayerScanlinePixelMapping" ->
            DrawLayerScanlinePixelMapping(e, c, nscan)
      [] e.layers[c].draw = "DrawBitmapScanline" -> DrawBitmapScanline(e, c, nscan)
      [] e.layers[c].draw = "DrawBitmapScanlineScaling" ->
            DrawBitmapScanlineScaling(e, c, nscan)
      [] e.layers[c].draw = "DrawBitmapScanlineAffine" ->
            DrawBitmapScanlineAffine(e, c, nscan)
      [] e.layers[c].draw = "DrawBitmapScanlinePixelMapping" ->
            DrawBitmapScanlinePixelMapping(e, c, nscan)

\* The call of a layer's painter by the scheduler: a null handle is called
\* like any other, which ends the program.
DrawLayer(e, c, nscan) ==
    IF e.layers[c].draw = "NULL"
    THEN Log([e EXCEPT !.nullcall = TRUE], Event("null_call", c, e.layers[c].priority, e.layers[c].dirty))
    ELSE Bind(Log(e, Event("layer_draw", c, e.layers[c].priority, e.layers[c].dirty)),
              LAMBDA e1 : CallPainter(e1, c, nscan))

\* "call raster effect callback"
RasterCallback(e, nscan, m) ==
    IF cb_raster # "NULL"
    THEN Log([e EXCEPT !.layers = MutateLayers(@, m), !.dirty = MutateDirty(@, m)],
             Event("cb_raster", nscan, FALSE, FALSE))
    ELSE e

\* "background is bitmap" / "background is solid color"
BackgroundFill(e, nscan) ==
    IF ~bg.bitmap.null /\ bg.palette # 0
    THEN IF nscan < bg.bitmap.height
         THEN Log([e EXCEPT !.scan = BlitOpaque(@, 0, bg.bitmap.data,
                               get_bitmap_ptr(bg.bitmap, 0, nscan),
                               Min(W, bg.bitmap.width), 1, bg.palette),
                            !.filled = TRUE],
                  Event("fill", nscan, FALSE, FALSE))
         ELSE e
    ELSE IF bg.color # 0
    THEN Log([e EXCEPT !.scan = BlitColor(@, bg.color, W), !.filled = TRUE],
             Event("fill", nscan, FALSE, FALSE))
    ELSE e

\* UpdateIfDirty moved inside the test that guards the first-pass draw
UpdateIfDirtyAndRegular(e, c) ==
    IF e.layers[c].ok /\ ~e.layers[c].priority /\ (e.dirty \/ e.layers[c].dirty)
    THEN Bind(UpdateLayer(e, c), LAMBDA u : [u EXCEPT !.layers[c].dirty = FALSE])
    ELSE e

\* "update if dirty" of layer c
UpdateIfDirty(e, c) ==
    IF e.layers[c].ok /\ (e.dirty \/ e.layers[c].dirty)
    THEN Bind(UpdateLayer(e, c), LAMBDA u : [u EXCEPT !.layers[c].dirty = FALSE])
    ELSE e

\* "draw" of layer c in the first pass
DrawIfRegular(e, c, nscan) ==
    IF /\ e.layers[c].ok
       /\ ~e.layers[c].priority
       /\ nscan >= e.layers[c].clip.y1
       /\ nscan <= e.layers[c].clip.y2
    THEN Bind(DrawLayer(e, c, nscan),
              LAMBDA d : [d EXCEPT !.bgp = @ \/ (~d.nullcall /\ d.ret)])
    ELSE e

\* "draw background layers": layer c and the layers below it
RECURSIVE LayerLoop(_, _, _)
LayerLoop(e, c, nscan) ==
    IF c < 0 \/ e.nullcall THEN e
    ELSE Bind(UpdateIfDirty(e, c),
           LAMBDA e1 :
             Bind(DrawIfRegular(e1, c, nscan),
                  LAMBDA e2 : LayerLoop(e2, c - 1, nscan)))

BackgroundLayers(e, nscan) ==
    IF NumLayers > 0 /\ ~e.nullcall
    THEN Bind(Log([e EXCEPT !.bgp = FALSE, !.priority = ZeroRow],
                  Event("clear_priority", nscan, FALSE, FALSE)),
              LAMBDA e1 : LayerLoop(e1, NumLayers - 1, nscan))
    ELSE e

\* "update if dirty" of a sprite
UpdateIfMoved(s0, edirty) ==
    IF s0.world_space /\ (s0.dirty \/ edirty)
    THEN [UpdateSprite([s0 EXCEPT !.x = s0.xworld - world.x,
                                  !.y = s0.yworld - world.y])
             EXCEPT !.dirty = FALSE]
    ELSE s0

\* SpriteStep that draws every covered sprite, whatever its flags
SpriteStepAnyFlag(e, index, nscan) ==
    IF check_sprite_coverage(e.sprites[index], nscan, sprite_mask)
    THEN Bind(Log(e, Event("sprite_draw", index, "PRIORITY" \in e.sprites[index].flags,
                           e.sprites[index].dirty)),
              LAMBDA e1 : SpriteDraw(e1, index, nscan))
    ELSE e

\* The body of the loop "draw regular sprites" for the sprite `index`
SpriteStep(e, index, nscan) ==
    IF check_sprite_coverage(e.sprites[index], nscan, sprite_mask)
    THEN IF "PRIORITY" \notin e.sprites[index].flags
         THEN Bind(Log(e, Event("sprite_draw", index, "PRIORITY" \in e.sprites[index].flags,
                             e.sprites[index].dirty)),
                   LAMBDA e1 : SpriteDraw(e1, index, nscan))
         ELSE [e EXCEPT !.sprp = TRUE]
    ELSE e

\* "draw regular sprites": the sprite `index` and those after it in the list
RECURSIVE SpriteLoop(_, _, _)
SpriteLoop(e, index, nscan) ==
    IF index = -1 THEN e
    ELSE Bind([e EXCEPT !.sprites[index] = UpdateIfMoved(@, e.dirty)],
           LAMBDA e1 :
             Bind(SpriteStep(e1, index, nscan),
                  LAMBDA e2 : SpriteLoop(e2, e1.sprites[index].next, nscan)))

RegularSprites(e, nscan) ==
    IF NumSprites > 0 /\ ~e.nullcall
    THEN Bind(Log([e EXCEPT !.collision = EmptyCollision],
                  Event("clear_collision", nscan, FALSE, FALSE)),
              LAMBDA e1 : SpriteLoop(e1, list_first, nscan))
    ELSE e

\* "draw background layers with priority"
RECURSIVE PriorityLayerLoop(_, _, _)
PriorityLayerLoop(e, c, nscan) ==
    IF c < 0 \/ e.nullcall THEN e
    ELSE Bind(IF /\ e.layers[c].ok
                 /\ e.layers[c].priority
                 /\ nscan >= e.layers[c].clip.y1
                 /\ nscan <= e.layers[c].clip.y2
              THEN DrawLayer(e, c, nscan)
              ELSE e,
           LAMBDA e1 : PriorityLayerLoop(e1, c - 1, nscan))

PriorityLayers(e, nscan) ==
    IF NumLayers > 0 THEN PriorityLayerLoop(e, NumLayers - 1, nscan) ELSE e

\* "overlay background tiles with priority"
PriorityOverlay(e, nscan) ==
    IF e.bgp /\ ~e.nullcall
    THEN LogWrites(
            Log([e EXCEPT !.scan = [x \in Cols |->
                                      IF e.priority[x] # 0 THEN e.priority[x]
                                      ELSE e.scan[x]]],
                Event("overlay", nscan, FALSE, FALSE)),
            "overlay", 0, "scan", { x \in Cols : e.priority[x] # 0 })
    ELSE e

\* "draw sprites with priority"
RECURSIVE PrioritySpriteLoop(_, _, _)
PrioritySpriteLoop(e, index, nscan) ==
    IF index = -1 THEN e
    ELSE Bind(IF /\ check_sprite_coverage(e.sprites[index], nscan, sprite_mask)
                 /\ "PRIORITY" \in e.sprites[index].flags
              THEN Bind(Log(e, Event("sprite_draw", index,
                                  "PRIORITY" \in e.sprites[index].flags,
                                  e.sprites[index].dirty)),
                        LAMBDA e0 : SpriteDraw(e0, index, nscan))
              ELSE e,
           LAMBDA e1 : PrioritySpriteLoop(e1, e1.sprites[index].next, nscan))

PrioritySprites(e, nscan) ==
    IF e.sprp /\ ~e.nullcall
    THEN Bind(Log(e, Event("priority_sprites", nscan, FALSE, FALSE)),
              LAMBDA e1 : PrioritySpriteLoop(e1, list_first, nscan))
    ELSE e

\* Compose with the sprites drawn before the layers
ComposeSpritesFirst(e, nscan) ==
    Bind(BackgroundFill(e, nscan), LAMBDA e1 :
    Bind(RegularSprites(e1, nscan), LAMBDA e2 :
    Bind(BackgroundLayers(e2, nscan), LAMBDA e3 :
    Bind(PriorityLayers(e3, nscan), LAMBDA e4 :
    Bind(PriorityOverlay(e4, nscan), LAMBDA e5 :
         PrioritySprites(e5, nscan))))))

\* The passes of one scanline after the raster callback, in program order
Compose(e, nscan) ==
    Bind(BackgroundFill(e, nscan), LAMBDA e1 :
    Bind(BackgroundLayers(e1, nscan), LAMBDA e2 :
    Bind(RegularSprites(e2, nscan), LAMBDA e3 :
    Bind(PriorityLayers(e3, nscan), LAMBDA e4 :
    Bind(PriorityOverlay(e4, nscan), LAMBDA e5 :
         PrioritySprites(e5, nscan))))))

\* "next scanline": the cursor after the call, and the value returned
NextLine(l) == l + 1
\* MoreLines with the comparison off by one
MoreLinesInclusive(l) == l <= H
MoreLines(l) == l < H

\* The call state DrawScanline starts from
CallState ==
    [layers |-> layers, sprites |-> sprites, dirty |-> dirty,
     scan |-> IF line \in Lines THEN framebuffer[line] ELSE ZeroRow,
     priority |-> priority, collision |-> collision, linebuffer |-> linebuffer,
     bgp |-> FALSE, sprp |-> FALSE, ret |-> FALSE,
     filled |-> FALSE, nullcall |-> FALSE, ub |-> FALSE,
     trace |-> << >>, wlog |-> {}, srcpos |-> {}, samples |-> {}, scaled |-> {}]

\* The call wrote the framebuffer line
WroteScan(e) == e.filled \/ \E w \in e.wlog : w.buf = "scan"

\* DrawScanline: draws the next scanline of the frame.  m is what the
\* raster callback does; `crash` chooses, when the call accessed memory
\* outside a buffer, whether the program ends there.
DrawScanline ==
    /\ fault = "none"
    /\ line < MaxLine
    /\ \E m \in CallbackMutations(cb_raster) :
       \E e0 \in {RasterCallback(CallState, line, m)} :
       \E e \in {Compose(e0, line)} :
       \E crash \in IF e.ub \/ (line \notin Lines /\ WroteScan(e)) THEN BOOLEAN ELSE {FALSE} :
            /\ trace' = e.trace
            /\ wlog' = e.wlog
            /\ srcpos' = e.srcpos
            /\ samples' = e.samples
            /\ scaled' = e.scaled
            /\ stale' = { c \in LayerIds : e0.dirty \/ e0.layers[c].dirty }
            /\ last' = line
            /\ layers' = e.layers
            /\ sprites' = e.sprites
            /\ priority' = e.priority
            /\ collision' = e.collision
            /\ linebuffer' = e.linebuffer
            /\ framebuffer' = IF line \in Lines
                              THEN [framebuffer EXCEPT ![line] = e.scan]
                              ELSE framebuffer
            /\ IF e.nullcall \/ crash
               THEN /\ fault' = IF e.nullcall THEN "null_call" ELSE "out_of_bounds"
                    /\ dirty' = e.dirty
                    /\ UNCHANGED << line, ret, ncalls >>
               ELSE /\ fault' = "none"
                    /\ dirty' = FALSE
                    /\ line' = NextLine(line)
                    /\ ret' = MoreLines(line')
                    /\ ncalls' = ncalls + 1
            /\ UNCHANGED << cb_raster, bg, list_first, sprite_mask, world >>

\* The host starts a new frame: the scanline cursor returns to line 0
BeginFrame ==
    /\ fault = "none"
    /\ line > 0
    /\ line' = 0
    /\ ncalls' = 0
    /\ UNCHANGED << dirty, cb_raster, bg, layers, sprites, list_first, sprite_mask,
                    world, framebuffer, priority, collision, linebuffer, ret, fault,
                    last, trace, wlog, srcpos, samples, scaled, stale >>

\* The host changes the engine between two scanlines of the frame, one
\* change at a time
HostMutate ==
    /\ fault = "none"
    /\ line < H
    /\ ~dirty
    /\ \A c \in LayerIds : ~layers[c].dirty
    /\ \E m \in Mutations :
        /\ m.kind # "nop"
        /\ m.kind = "layer_mode" => layers[m.c].mode # m.mode
        /\ layers' = MutateLayers(layers, m)
        /\ dirty' = MutateDirty(dirty, m)
    /\ UNCHANGED << line, cb_raster, bg, sprites, list_first, sprite_mask, world,
                    framebuffer, priority, collision, linebuffer, ret, ncalls,
                    fault, last, trace, wlog, srcpos, samples, scaled, stale >>

(* --------------------------- engine configurations --------------------- *)
\* The palette of layer c and of sprite n
LayerPalette(c) == 10 * (c + 1)
SpritePalette(n) == 100 * (n + 1)

\* A tilemap whose first cell holds tile 1 and whose last cell holds tile 2
\* with the given flags; the other cells are empty
TwoTileMap(flags, pal) ==
    Tilemap([k \in 0 .. (MapCols * MapRows - 1) |->
                IF k = 0 THEN Tile(1, {})
                ELSE IF k = MapCols * MapRows - 1 THEN Tile(2, flags)
                ELSE EmptyTile], pal)

\* The layer as layer configuration leaves it: its draw procedure cached
Configured(l) == [l EXCEPT !.draw = GetLayerDraw(l)]

TiledLayer(c, mode, prio, tileflags, clip, hstart, vstart) ==
    Configured(Layer(TwoTileMap(tileflags, LayerPalette(c)), NullBitmap, NullObjects,
                     mode, prio, clip, hstart, vstart, MapCols * TileW, MapRows * TileW))

\* A bitmap layer over a bitmap of TileW x TileW samples
BitmapLayer(c, mode, prio, clip, hstart, vstart) ==
    Configured([Layer(NullTilemap, Bitmap(TileW, TileW, LayerPalette(c)), NullObjects,
                      mode, prio, clip, hstart, vstart, TileW, TileW)
                   EXCEPT !.palette = LayerPalette(c)])

\* An object layer with a plain object at (0, 0) and one with `flags` at
\* (ox, 0), both TileW wide and H high
ObjectLayer(c, mode, prio, flags, clip, hstart, ox) ==
    Configured(Layer(NullTilemap, NullBitmap,
                     ObjectList(<< Object(0, 0, TileW, H, {}, Bitmap(TileW, H, LayerPalette(c))),
                                   Object(ox, 0, TileW, H, flags,
                                          Bitmap(TileW, H, LayerPalette(c))) >>),
                     mode, prio, clip, hstart, 0, W, H))

\* A layer that was never given an asset
UnsetLayer ==
    [Layer(NullTilemap, NullBitmap, NullObjects, "FLAT", FALSE, FullClip, 0, 0, 0, 0)
        EXCEPT !.ok = FALSE]

\* Sprite n: TileW x H samples shown at column x on the lines 0 .. h - 1.
\* The samples are opaque, but for the first column of sprite 0.
PlainSprite(n, x, h, flags, do_collision, next) ==
    Sprite(flags, Rect(x, 0, Min(x + TileW, W), h), Rect(0, 0, Min(TileW, W - x), h),
           TileW, H,
           [k \in 0 .. (TileW * H - 1) |-> IF n = 0 /\ k % TileW = 0 THEN 0 ELSE 1],
           SpritePalette(n), do_collision, next)

NoBackground == [color |-> 0, bitmap |-> NullBitmap, palette |-> 0]
ColorBackground == [color |-> 1, bitmap |-> NullBitmap, palette |-> 0]
BitmapBackground == [color |-> 0, bitmap |-> Bitmap(W - 1, H, 0), palette |-> 2]

\* The sprite list 0 -> 1 -> ... -> NumSprites - 1, or the reverse
ChainNext(n) == IF n = NumSprites - 1 THEN -1 ELSE n + 1
ChainPrev(n) == n - 1
ChainFirst(forward) == IF NumSprites = 0 THEN -1
                       ELSE IF forward THEN 0 ELSE NumSprites - 1

\* What every specification starts from, whatever its configuration
InitFrame ==
    /\ line = 0
    /\ framebuffer = [l \in Lines |-> ZeroRow]
    /\ priority = ZeroRow
    /\ collision = EmptyCollision
    /\ linebuffer = ZeroRow
    /\ ret = TRUE
    /\ ncalls = 0
    /\ fault = "none"
    /\ last = 0
    /\ trace = << >>
    /\ wlog = {}
    /\ srcpos = {}
    /\ scaled = {}
    /\ samples = {}
    /\ stale = {}
    /\ sprite_mask = [top |-> 0, bottom |-> 0]
    /\ world = [x |-> 0, y |-> 0]

\* The layer tables whose layer c is one of Choices(c)
LayerTables(Choices(_)) ==
    { f \in [LayerIds -> UNION { Choices(c) : c \in LayerIds }] :
        \A c \in LayerIds : f[c] \in Choices(c) }

\* The layer table with layer 0 = l and no other layer in use
OnlyLayer(l) == [c \in LayerIds |-> IF c = 0 THEN l ELSE UnsetLayer]

\* Sprites 0 -> 1 -> ... one column apart, with PRIORITY where pf says so
ChainedSprites(pf) ==
    [n \in SpriteIds |->
        PlainSprite(n, n % W, H, IF pf[n] THEN {"PRIORITY"} ELSE {}, TRUE, ChainNext(n))]

(* ---------------- specification of the scanline scheduler -------------- *)
\* Layers: tiled (with a priority tile) or object layers, with or without
\* whole-layer priority, an object layer configured in SCALING mode, or a
\* layer without asset; sprites with or without the PRIORITY flag.
SchedLayers(c) ==
    { TiledLayer(c, "FLAT", p, {"PRIORITY"}, FullClip, 0, 0) : p \in BOOLEAN }
    \cup { ObjectLayer(c, "FLAT", FALSE, {}, FullClip, 0, TileW) }
    \cup { ObjectLayer(c, "SCALING", FALSE, {}, FullClip, 0, TileW) }
    \cup { UnsetLayer }

Init ==
    /\ InitFrame
    /\ dirty = FALSE
    /\ cb_raster \in {"NULL", "nop"}
    /\ bg \in {NoBackground, ColorBackground}
    /\ layers \in LayerTables(SchedLayers)
    /\ sprites \in { ChainedSprites(pf) : pf \in [SpriteIds -> BOOLEAN] }
    /\ list_first = ChainFirst(TRUE)

Next == DrawScanline \/ BeginFrame

Spec == Init /\ [][Next]_vars

(* -------------- specification with a host that changes layers ---------- *)
\* The host and the raster callback mark the engine or a layer dirty and
\* switch layers between FLAT and SCALING mode.
HostLayers(c) ==
    { TiledLayer(c, "FLAT", p, {}, FullClip, 0, 0) : p \in BOOLEAN }

InitHost ==
    /\ InitFrame
    /\ dirty = FALSE
    /\ cb_raster \in {"NULL", "mutator"}
    /\ bg = NoBackground
    /\ layers \in LayerTables(HostLayers)
    /\ sprites = ChainedSprites([n \in SpriteIds |-> FALSE])
    /\ list_first = ChainFirst(TRUE)

NextHost == DrawScanline \/ BeginFrame \/ HostMutate

SpecHost == InitHost /\ [][NextHost]_vars

(* ----------------------- specification of the sprites ------------------ *)
\* No layer; every sprite at column 0 or 1, with or without PRIORITY and
\* collision detection, sprite 1 on line 0 only and the others on every
\* line; the list in either order.
SpriteChoices(n, forward) ==
    { PlainSprite(n, x, IF n = 1 THEN 1 ELSE H, IF p THEN {"PRIORITY"} ELSE {}, d,
                  IF forward THEN ChainNext(n) ELSE ChainPrev(n)) :
        x \in {0, 1}, p \in BOOLEAN, d \in BOOLEAN }

InitSprites ==
    /\ InitFrame
    /\ dirty = FALSE
    /\ cb_raster = "NULL"
    /\ bg = ColorBackground
    /\ layers = [c \in LayerIds |-> UnsetLayer]
    /\ \E forward \in BOOLEAN :
        /\ list_first = ChainFirst(forward)
        /\ sprites \in { f \in [SpriteIds -> UNION { SpriteChoices(n, forward) : n \in SpriteIds }] :
                           \A n \in SpriteIds : f[n] \in SpriteChoices(n, forward) }

SpecSprites == InitSprites /\ [][Next]_vars

(* -------------------- specification of the scrolled layers ------------- *)
\* One tiled layer in FLAT or SCALING mode, scrolled to any position from
\* -MaxScroll to MaxScroll, with or without a column offset table.
MaxScroll == 5
Scrolls == (0 - MaxScroll) .. MaxScroll
ColumnTables ==
    {NoColumn} \cup { [k \in 0 .. W |-> off] : off \in {0 - MaxScroll, -1, 1, MaxScroll} }

InitWrap ==
    /\ InitFrame
    /\ dirty = FALSE
    /\ cb_raster = "NULL"
    /\ bg = NoBackground
    /\ \E mode \in {"FLAT", "SCALING"}, hstart \in Scrolls, vstart \in Scrolls,
          column \in ColumnTables :
          layers = OnlyLayer([TiledLayer(0, mode, FALSE, {}, FullClip, hstart, vstart)
                                 EXCEPT !.column = column])
    /\ sprites = ChainedSprites([n \in SpriteIds |-> FALSE])
    /\ list_first = ChainFirst(TRUE)

SpecWrap == InitWrap /\ [][Next]_vars

(* -------------------- specification of the clipped layers -------------- *)
\* One layer of any kind and mode, clipped to any window of columns.
ClipLayers ==
    { TiledLayer(0, mode, FALSE, flags, Rect(x1, 0, x2, H - 1), hstart, 0) :
        mode \in Modes, flags \in {{}, {"PRIORITY"}}, hstart \in {0, 1},
        x1 \in Cols, x2 \in 1 .. W }
    \cup { BitmapLayer(0, mode, FALSE, Rect(x1, 0, x2, H - 1), hstart, 0) :
        mode \in Modes, hstart \in {0, 1}, x1 \in Cols, x2 \in 1 .. W }
    \cup { ObjectLayer(0, "FLAT", FALSE, flags, Rect(x1, 0, x2, H - 1), hstart, ox) :
        flags \in {{}, {"PRIORITY"}}, hstart \in {0, 1}, ox \in {1, TileW},
        x1 \in Cols, x2 \in 1 .. W }

InitClip ==
    /\ InitFrame
    /\ dirty = FALSE
    /\ cb_raster = "NULL"
    /\ bg = NoBackground
    /\ layers \in { OnlyLayer(l) : l \in { k \in ClipLayers : k.clip.x1 < k.clip.x2 } }
    /\ sprites = ChainedSprites([n \in SpriteIds |-> FALSE])
    /\ list_first = ChainFirst(TRUE)

SpecClip == InitClip /\ [][Next]_vars

(* -------------------- specification of the mosaic layers --------------- *)
\* One tiled layer of any mode or one FLAT bitmap layer with the mosaic
\* effect on, sampled every MosaicH lines in blocks of MosaicW pixels.  The
\* last tile of the map is plain, rotated (its transparent column becomes a
\* transparent row) or has the PRIORITY flag.
MosaicLayers ==
    { [l EXCEPT !.mosaic = [w |-> mw, h |-> mh, buffer |-> ZeroRow]] :
        l \in { TiledLayer(0, mode, FALSE, flags, FullClip, 0, vstart) :
                  mode \in Modes, flags \in {{}, {"ROTATE"}, {"PRIORITY"}},
                  vstart \in {0, 1} }
              \cup { BitmapLayer(0, "FLAT", FALSE, FullClip, hstart, 0) : hstart \in {0, 1} },
        mw \in {1, 2}, mh \in {1, 2} }

InitMosaic ==
    /\ InitFrame
    /\ dirty = FALSE
    /\ cb_raster = "NULL"
    /\ bg \in {NoBackground, ColorBackground}
    /\ layers \in { OnlyLayer(l) : l \in MosaicLayers }
    /\ sprites = [n \in SpriteIds |-> PlainSprite(n, 0, 0, {}, FALSE, ChainNext(n))]
    /\ list_first = ChainFirst(TRUE)

SpecMosaic == InitMosaic /\ [][Next]_vars

(* ------------------- specification of the sprite coverage -------------- *)
\* Sprite n on the lines 0 .. h - 1, on screen at column 0 or left of the
\* screen as UpdateSprite leaves a sprite at x = -1 - TileW: an empty
\* screen rectangle that ends at column -1
CoverSprite(n, offscreen, h, flags) ==
    IF offscreen
    THEN [PlainSprite(n, 0, h, flags, FALSE, ChainNext(n))
            EXCEPT !.x = -1 - TileW,
                   !.dstrect = Rect(0, 0, -1, h),
                   !.srcrect = Rect(TileW + 1, 0, TileW, h)]
    ELSE PlainSprite(n, 0, h, flags, FALSE, ChainNext(n))

\* Every sprite on or off screen, on line 0 only or on every line, with or
\* without the PRIORITY and MASKED flags; the mask region is line 0.
CoverChoices(n) ==
    { CoverSprite(n, offscreen, h, flags) :
        offscreen \in BOOLEAN, h \in {1, H}, flags \in SUBSET {"PRIORITY", "MASKED"} }

InitCover ==
    /\ InitFrame
    /\ dirty = FALSE
    /\ cb_raster = "NULL"
    /\ bg = ColorBackground
    /\ layers = [c \in LayerIds |-> UnsetLayer]
    /\ sprites \in { f \in [SpriteIds -> UNION { CoverChoices(n) : n \in SpriteIds }] :
                       \A n \in SpriteIds : f[n] \in CoverChoices(n) }
    /\ list_first = ChainFirst(TRUE)

SpecCover == InitCover /\ [][Next]_vars

(* ----------------- specification of the per-pixel painters ------------- *)
\* One tiled layer in AFFINE or PIXEL_MAP mode without mosaic, with the
\* identity transform or pixel map, clipped to any window of columns.
SampleLayers ==
    { TiledLayer(0, mode, FALSE, flags, Rect(x1, 0, x2, H - 1), hstart, 0) :
        mode \in {"AFFINE", "PIXEL_MAP"}, flags \in {{}, {"FLIPX"}},
        hstart \in {0, 1}, x1 \in Cols, x2 \in 1 .. W }

InitSample ==
    /\ InitFrame
    /\ dirty = FALSE
    /\ cb_raster = "NULL"
    /\ bg = NoBackground
    /\ layers \in { OnlyLayer(l) : l \in { k \in SampleLayers : k.clip.x1 < k.clip.x2 } }
    /\ sprites = [n \in SpriteIds |-> PlainSprite(n, 0, 0, {}, FALSE, ChainNext(n))]
    /\ list_first = ChainFirst(TRUE)

SpecSample == InitSample /\ [][Next]_vars

(* ------------------- specification of the scaled sprites --------------- *)
\* Sprite n drawn with scaling: the part of its TileW x H source bitmap
\* from source column srcx1 on (srcrect, in fixed point), stretched over
\* dstw columns and dsth lines of the screen from (0, 0) on, with the
\* sampling increments that cover exactly that part.
ScaledSprite(n, srcx1, dstw, dsth, flags, do_collision) ==
    [PlainSprite(n, 0, dsth, flags, do_collision, ChainNext(n))
        EXCEPT !.mode = "SCALING",
               !.dstrect = Rect(0, 0, dstw, dsth),
               !.srcrect = Rect(int2fix(srcx1), 0, int2fix(TileW), int2fix(H)),
               !.dx = CDiv(int2fix(TileW - srcx1), dstw),
               !.dy = CDiv(int2fix(H), dsth)]

\* Sprite 0 shows its whole bitmap or the part right of column 0, over one
\* or two columns and one or every line, flipped or not, with or without
\* collision detection; the sprites after it show their whole bitmap.
ScaledChoices(n) ==
    { ScaledSprite(n, srcx1, dstw, dsth, flags, do_collision) :
        srcx1 \in IF n = 0 THEN {0, 1} ELSE {0},
        dstw \in IF n = 0 THEN {1, 2} ELSE {W},
        dsth \in {1, H},
        flags \in SUBSET {"FLIPX", "FLIPY"},
        do_collision \in IF n = 0 THEN BOOLEAN ELSE {TRUE} }

InitScaled ==
    /\ InitFrame
    /\ dirty = FALSE
    /\ cb_raster = "NULL"
    /\ bg = ColorBackground
    /\ layers = [c \in LayerIds |-> UnsetLayer]
    /\ sprites \in { f \in [SpriteIds -> UNION { ScaledChoices(n) : n \in SpriteIds }] :
                       \A n \in SpriteIds : f[n] \in ScaledChoices(n) }
    /\ list_first = ChainFirst(TRUE)

SpecScaled == InitScaled /\ [][Next]_vars

(* ------------------------------ properties ----------------------------- *)
\* C1: every DrawScanline call that returns advances engine.line by exactly
\* 1 and returns true iff the advanced line is below H; so H calls from line
\* 0 leave line = H with the H-th call returning false, and the call after
\* it returns false too.
ScanAdvance ==
    /\ [][ncalls' = ncalls + 1 => (line' = line + 1 /\ ret' = (line' < H))]_vars
    /\ [](ncalls = H => (line = H /\ ret = FALSE))
    /\ [](ncalls = H + 1 => ret = FALSE)

\* The call after the last line of the frame has returned
ScanAdvanceWitness == ncalls = H + 1 /\ fault = "none" /\ ret = FALSE

\* C2: in every reachable state 0 <= engine.line <= H, whatever calls were
\* made, those after a call that returned false included.
LineInRange == 0 <= line /\ line <= H

\* The sprites in list order
RECURSIVE ListFrom(_)
ListFrom(index) ==
    IF index = -1 THEN << >> ELSE << index >> \o ListFrom(sprites[index].next)
ListPos(n) == CHOOSE k \in DOMAIN ListFrom(list_first) : ListFrom(list_first)[k] = n

\* The stage of a step of the call; -1 for housekeeping that draws nothing
StageOf(ev) ==
    CASE ev.op = "cb_raster" -> 0
      [] ev.op = "fill" -> 1
      [] ev.op \in {"layer_draw", "null_call"} /\ ~ev.prio -> 2
      [] ev.op = "sprite_draw" /\ ~ev.prio -> 3
      [] ev.op \in {"layer_draw", "null_call"} /\ ev.prio -> 4
      [] ev.op = "overlay" -> 5
      [] ev.op = "sprite_draw" /\ ev.prio -> 6
      [] OTHER -> -1

IsStep(ev) == StageOf(ev) >= 0
Steps == SelectSeq(trace, IsStep)

\* C3: the steps of one DrawScanline call come in the fixed order raster
\* callback, background fill, non-priority layers by decreasing index,
\* non-priority sprites in list order, whole-layer-priority layers by
\* decreasing index, overlay copy, priority sprites in list order.
FixedOrder ==
    \A i, j \in DOMAIN Steps :
        i < j =>
            /\ StageOf(Steps[i]) <= StageOf(Steps[j])
            /\ (StageOf(Steps[i]) = StageOf(Steps[j]) /\ StageOf(Steps[i]) \in {2, 4})
                  => Steps[i].idx > Steps[j].idx
            /\ (StageOf(Steps[i]) = StageOf(Steps[j]) /\ StageOf(Steps[i]) \in {3, 6})
                  => ListPos(Steps[i].idx) < ListPos(Steps[j].idx)
            /\ StageOf(Steps[i]) \in {0, 1, 5} => StageOf(Steps[i]) < StageOf(Steps[j])

\* A call that went through every stage
FixedOrderWitness ==
    /\ fault = "none"
    /\ \A st \in 0 .. 6 : \E i \in DOMAIN Steps : StageOf(Steps[i]) = st

\* The last call returned, and drew a line of the frame
Returned == fault = "none" /\ trace # << >> /\ last \in Lines

LayerWroteOverlay(x) ==
    \E w \in wlog : w.who = "layer" /\ w.buf = "priority" /\ w.x = x
PrioritySpriteWrote(x) ==
    \E w \in wlog : /\ w.who = "sprite" /\ w.buf = "scan" /\ w.x = x
                    /\ "PRIORITY" \in sprites[w.id].flags

\* C4: at the end of a DrawScanline call every non-zero pixel a layer
\* painter wrote into the priority overlay during the call, in the first or
\* in the second layer pass, is on the framebuffer line at the same x
\* unless a priority sprite drew over it; and the overlay holds nothing
\* from an earlier scanline.
OverlayCopied ==
    Returned =>
        \A x \in Cols :
            /\ LayerWroteOverlay(x) =>
                  /\ priority[x] # 0
                  /\ framebuffer[last][x] = priority[x] \/ PrioritySpriteWrote(x)
            /\ priority[x] # 0 => LayerWroteOverlay(x)

\* Sprite n is covered on line nscan and has an opaque sample at column x
\* (sprites without flip or rotation)
SpriteSample(n, nscan, x) ==
    sprites[n].pixels[(sprites[n].srcrect.y1 + (nscan - sprites[n].dstrect.y1))
                         * sprites[n].pitch
                      + sprites[n].srcrect.x1 + (x - sprites[n].dstrect.x1)]
SpriteOpaqueAt(n, nscan, x) ==
    /\ check_sprite_coverage(sprites[n], nscan, sprite_mask)
    /\ x >= sprites[n].dstrect.x1
    /\ x < sprites[n].dstrect.x2
    /\ SpriteSample(n, nscan, x) # 0
OpaqueAt(nscan, x) == { n \in SpriteIds : SpriteOpaqueAt(n, nscan, x) }
SpritePixel(n, nscan, x) == PaletteData(sprites[n].palette, SpriteSample(n, nscan, x))

\* The sprite of S that is last in the list, and the one the passes draw
\* last: sprites with PRIORITY come after those without, each in list order
DrawRank(n) == ListPos(n) + IF "PRIORITY" \in sprites[n].flags THEN NumSprites ELSE 0
LastInList(S) == CHOOSE n \in S : \A m \in S : ListPos(m) <= ListPos(n)
LastDrawn(S) == CHOOSE n \in S : \A m \in S : DrawRank(m) <= DrawRank(n)

\* C5 as stated: where two covered sprites are opaque at the same x, the
\* framebuffer pixel is that of the sprite later in the list, whatever the
\* flags of the two.
LaterSpriteWins ==
    Returned =>
        \A x \in Cols :
            Cardinality(OpaqueAt(last, x)) >= 2 =>
                framebuffer[last][x] = SpritePixel(LastInList(OpaqueAt(last, x)), last, x)

\* C5, amended: where two covered sprites are opaque at the same x, the
\* framebuffer pixel is that of the sprite later in the list when both or
\* neither have the PRIORITY flag, and that of the sprite with the PRIORITY
\* flag when only one has it.
TopSpriteWins ==
    Returned =>
        \A x \in Cols :
            Cardinality(OpaqueAt(last, x)) >= 2 =>
                framebuffer[last][x] = SpritePixel(LastDrawn(OpaqueAt(last, x)), last, x)

\* Two sprites opaque at one x, the earlier in the list with PRIORITY and
\* the later without
TopSpriteWinsWitness ==
    /\ Returned
    /\ \E x \in Cols : \E a, b \in OpaqueAt(last, x) :
          /\ ListPos(a) < ListPos(b)
          /\ "PRIORITY" \in sprites[a].flags
          /\ "PRIORITY" \notin sprites[b].flags
          /\ framebuffer[last][x] = SpritePixel(a, last, x)

\* The sprites with collision detection that are opaque at (nscan, x)
Colliders(nscan, x) == { n \in OpaqueAt(nscan, x) : sprites[n].do_collision }

\* C6: after a DrawScanline call, where two or more sprites with
\* do_collision drawn in either sprite pass have a non-zero source pixel at
\* the same x, all of them have collision = true and the collision slot at
\* x holds the id of the one drawn last; a slot no such sprite wrote holds
\* 0xFFFF.
CollisionRecorded ==
    Returned =>
        \A x \in Cols :
            /\ Colliders(last, x) = {} => collision[x] = NoSprite
            /\ Colliders(last, x) # {} => collision[x] = LastDrawn(Colliders(last, x))
            /\ Cardinality(Colliders(last, x)) >= 2 =>
                  \A n \in Colliders(last, x) : sprites[n].collision

\* Two sprites with collision detection met at one x, one drawn in each pass
CollisionRecordedWitness ==
    /\ Returned
    /\ \E x \in Cols : \E a, b \in Colliders(last, x) :
          /\ "PRIORITY" \in sprites[a].flags
          /\ "PRIORITY" \notin sprites[b].flags
          /\ collision[x] = a
          /\ sprites[b].collision

\* C7: a layer whose cached painter handle is null (no asset, or an object
\* layer in SCALING mode) is skipped: DrawScanline never invokes the null
\* handle, in the first or in the second layer pass.
NullHandleSkipped ==
    /\ fault # "null_call"
    /\ \A i \in DOMAIN trace : trace[i].op # "null_call"

\* C8: every source position the FLAT and SCALING tiled painters compute
\* satisfies 0 <= xpos < layer.width and 0 <= ypos < layer.height, and the
\* tile looked up is a cell of the tilemap, for every hstart, vstart and
\* column offset.
SourceInLayer ==
    \A p \in srcpos :
        /\ 0 <= p.xpos /\ p.xpos < p.width
        /\ 0 <= p.ypos /\ p.ypos < p.height
        /\ p.xtile \in 0 .. (MapCols - 1)
        /\ p.ytile \in 0 .. (MapRows - 1)

\* The steps of the last call before step j
Before(j) == { i \in DOMAIN trace : i < j }

\* C9: in a DrawScanline call for line k the raster callback, if set, is
\* called exactly once, with k, before anything else; a layer whose update
\* was pending (engine.dirty or its dirty flag set by the host or by the
\* callback) has UpdateLayer called before its painter, whether it has
\* whole-layer priority or not; no painter runs with its layer's dirty flag
\* set; and engine.dirty is false on return.
UpdatedBeforeDrawn ==
    /\ [](trace # << >> =>
            /\ cb_raster # "NULL" =>
                  /\ trace[1] = Event("cb_raster", last, FALSE, FALSE)
                  /\ \A i \in DOMAIN trace : i > 1 => trace[i].op # "cb_raster"
            /\ cb_raster = "NULL" => \A i \in DOMAIN trace : trace[i].op # "cb_raster"
            /\ \A j \in DOMAIN trace :
                  trace[j].op = "layer_draw" =>
                      /\ ~trace[j].dirty
                      /\ trace[j].idx \in stale =>
                            \E i \in Before(j) : /\ trace[i].op = "UpdateLayer"
                                                 /\ trace[i].idx = trace[j].idx)
    /\ [][ncalls' = ncalls + 1 => ~dirty']_vars

\* The callback marked something dirty and a whole-layer-priority layer
\* was updated, then drawn
UpdatedBeforeDrawnWitness ==
    /\ fault = "none"
    /\ cb_raster = "mutator"
    /\ \E j \in DOMAIN trace :
          /\ trace[j].op = "layer_draw"
          /\ trace[j].prio
          /\ trace[j].idx \in stale

\* C10: every pixel a layer painter writes, to the framebuffer line or to
\* the priority overlay, is at a column x with clip.x1 <= x < clip.x2.
ClipRespected ==
    \A w \in wlog :
        w.who = "layer" =>
            /\ layers[w.id].clip.x1 <= w.x
            /\ w.x < layers[w.id].clip.x2

\* The mosaic buffer of layer c after a sample of line nscan alone: what
\* the layer's painter leaves in a buffer that was empty before the call
FreshSample(c, nscan) ==
    CallPainter([CallState EXCEPT !.layers[c].mosaic.buffer = ZeroRow],
                c, nscan).layers[c].mosaic.buffer

\* Layer c has the mosaic effect on and was drawn by the last call
MosaicDrawn(c) ==
    /\ Returned
    /\ layers[c].ok
    /\ layers[c].mosaic.h # 0
    /\ \E i \in DOMAIN trace : trace[i].op = "layer_draw" /\ trace[i].idx = c

\* C11: a layer with mosaic.h > 0 changes its mosaic buffer only on the
\* lines with line mod mosaic.h = 0 and blits it on every line, so that on
\* line L the buffer holds, and the framebuffer line gets, the sample of
\* line L - (L mod mosaic.h).
MosaicSampled ==
    \A c \in LayerIds :
        MosaicDrawn(c) =>
            /\ layers[c].mosaic.buffer
                  = FreshSample(c, last - CRem(last, layers[c].mosaic.h))
            /\ \A x \in Cols :
                  (\E w \in wlog : w.who = "layer" /\ w.id = c /\ w.buf = "scan" /\ w.x = x)
                      <=> x \in MosaicColumns(layers[c])
            /\ \A x \in MosaicColumns(layers[c]) :
                  framebuffer[last][x]
                      = BlitMosaic(layers[c].mosaic.buffer, ZeroRow, 0, W,
                                   layers[c].mosaic.w)[x]

\* The coverage test of sprite n on line nscan
Covered(n, nscan) ==
    /\ sprites[n].dstrect.y1 <= nscan
    /\ nscan < sprites[n].dstrect.y2
    /\ sprites[n].dstrect.x2 >= 0
    /\ sprites[n].srcrect.x2 >= 0
    /\ ~("MASKED" \in sprites[n].flags
          /\ sprite_mask.top <= nscan /\ nscan <= sprite_mask.bottom)

\* The steps of the last call that invoked the painter of sprite n, and
\* whether step i belongs to the pass "draw sprites with priority"
SpriteDraws(n) ==
    { i \in DOMAIN trace : trace[i].op = "sprite_draw" /\ trace[i].idx = n }
InPriorityPass(i) ==
    \E j \in DOMAIN trace : j < i /\ trace[j].op = "priority_sprites"

\* The sprites of the sprite list
Listed == { ListFrom(list_first)[k] : k \in DOMAIN ListFrom(list_first) }

\* C12: on every scanline the painter of each sprite of the list is invoked
\* exactly once if the coverage test holds and not at all otherwise, in the
\* regular pass when the sprite lacks the PRIORITY flag and in the priority
\* pass when it has it.
SpritePaintedOnce ==
    Returned =>
        \A n \in Listed :
            /\ Covered(n, last) => Cardinality(SpriteDraws(n)) = 1
            /\ ~Covered(n, last) => SpriteDraws(n) = {}
            /\ \A i \in SpriteDraws(n) :
                  InPriorityPass(i) <=> "PRIORITY" \in sprites[n].flags

\* On one line a sprite was painted in the priority pass and a sprite of
\* that line was left out because it is masked
SpritePaintedOnceWitness ==
    /\ Returned
    /\ \E n \in Listed :
          /\ "PRIORITY" \in sprites[n].flags
          /\ \E i \in SpriteDraws(n) : InPriorityPass(i)
    /\ \E n \in Listed :
          /\ SpriteDraws(n) = {}
          /\ "MASKED" \in sprites[n].flags
          /\ sprites[n].dstrect.x2 >= 0
          /\ last < sprites[n].dstrect.y2

\* Layer c was drawn by the last call with the AFFINE or PIXEL_MAP tiled
\* painter, without mosaic
SampledLayer(c) ==
    /\ Returned
    /\ layers[c].mosaic.h = 0
    /\ layers[c].draw \in {"DrawLayerScanlineAffine", "DrawLayerScanlinePixelMapping"}
    /\ \E i \in DOMAIN trace : trace[i].op = "layer_draw" /\ trace[i].idx = c

\* The samples the painter of layer c took for column x
SamplesOf(c, x) == { v \in samples : v.id = c /\ v.x = x }

\* C13: the AFFINE and PIXEL_MAP tiled painters without mosaic sample every
\* column x of the clip window [clip.x1, clip.x2) exactly once and store
\* its pixel at linebuffer[x], so that the copy of the line buffer puts the
\* sample computed for x at framebuffer column x.
SampleAtColumn ==
    \A c \in LayerIds :
        SampledLayer(c) =>
            \A x \in layers[c].clip.x1 .. (layers[c].clip.x2 - 1) :
                /\ Cardinality(SamplesOf(c, x)) = 1
                /\ \A v \in SamplesOf(c, x) :
                      /\ v.at = x
                      /\ linebuffer[x] = v.value
                      /\ v.value # 0 => framebuffer[last][x] = v.value

\* The srcrect of the sprite lies inside its source bitmap (in fixed point)
\* and its sampling increments are positive
SrcrectInBitmap(sprite) ==
    /\ 0 <= sprite.srcrect.x1 /\ sprite.srcrect.x1 < sprite.srcrect.x2
    /\ sprite.srcrect.x2 <= int2fix(sprite.info.w)
    /\ 0 <= sprite.srcrect.y1 /\ sprite.srcrect.y1 < sprite.srcrect.y2
    /\ sprite.srcrect.y2 <= int2fix(sprite.info.h)
    /\ sprite.dx > 0 /\ sprite.dy > 0

\* C14: for a scaled sprite covered on the line drawn, with srcrect inside
\* the source bitmap and dx, dy > 0, the source row fix2int(srcy) that
\* DrawScalingSpriteScanline reads lies in [0, info.h) and the first source
\* column srcx / 2^FIXED_BITS in [0, info.w), whatever FLIPX and FLIPY are.
ScaledSourceInBitmap ==
    \A p \in scaled :
        SrcrectInBitmap(sprites[p.id]) =>
            /\ 0 <= p.row /\ p.row < p.h
            /\ 0 <= p.col /\ p.col < p.w

\* The layer has a tile or an object with the PRIORITY flag, that a painter
\* could route to the priority overlay
HasPriorityItem(layer) ==
    \/ /\ ~layer.tilemap.null
       /\ \E k \in DOMAIN layer.tilemap.tiles : "PRIORITY" \in layer.tilemap.tiles[k].flags
    \/ /\ ~layer.objects.null
       /\ \E k \in DOMAIN layer.objects.list : "PRIORITY" \in layer.objects.list[k].flags

\* The painters that route tiles or objects to the priority overlay
RoutingPainters ==
    {"DrawLayerScanline", "DrawLayerScanlineScaling", "DrawLayerObjectScanline"}

\* The layers whose painter the last call ran in the pass of the regular layers
DrawnRegular ==
    { trace[i].idx : i \in { j \in DOMAIN trace : trace[j].op = "layer_draw" /\ ~trace[j].prio } }

\* The last call ran the copy of the priority overlay
OverlayRan == \E i \in DOMAIN trace : trace[i].op = "overlay"

\* C15: a painter returns true, so that DrawScanline sets background_priority
\* and copies the priority overlay, only if the call routed a tile or an
\* object with the PRIORITY flag to the overlay: when the overlay copy ran,
\* one of the layers drawn has such a tile or object and a painter that
\* routes; the AFFINE and PIXEL_MAP tiled painters and the bitmap painters
\* never cause the copy.
TrueOnlyIfRouted ==
    OverlayRan =>
        \E c \in DrawnRegular :
            /\ layers[c].draw \in RoutingPainters
            /\ HasPriorityItem(layers[c])
====
